---- MODULE Spec2Model ----
(***************************************************************************)
(* Lifecycle of atomicgo/service: Service.Start launches the operational   *)
(* (metrics) listener and the primary listener as goroutines, waits in a   *)
(* select for a termination signal or a listener error, and on a signal    *)
(* runs Service.gracefulShutdown (hooks, then both listener shutdowns).    *)
(* Service.Stop runs gracefulShutdown from another task.                   *)
(***************************************************************************)
EXTENDS Naturals, Integers, Sequences, FiniteSets, TLC

\* ---------------------------------------------------------------- bounds
MaxStarts == 2      \* calls of Start, one after the other (RestartSpec)
MaxStops  == 1      \* calls of Stop
MaxHooks  == 2      \* hooks registered through AddShutdownHook
MaxCalls  == 4      \* calls of Register* and of the observation operations
MaxReqs   == 1      \* requests through the metrics middleware
MaxNameLen == 3     \* symbols of a name given to ensureMetricNamePrefix
MaxObservers == 2   \* tasks that increment the same counter concurrently
MaxChain  == 3      \* links of a list given to applyMiddleware
MaxUse    == 2      \* calls of Service.Use
MaxRequests == 2    \* requests served at the same time
MaxAccess == 2    \* calls of the request-context accessors

\* ------------------------------------------------------ program constants
QuitCap == 1            \* make(chan os.Signal, 1)
\* (mutant) the error channel is made like the quit channel, with room for
\* one value
ServerErrorsCapOne == QuitCap
ServerErrorsCap == 2    \* make(chan error, 2)

Kinds == {"primary", "metrics"}
Gens  == 1..MaxStarts
Procs == {"start", "stop"}      \* the tasks that can run gracefulShutdown
HookOutcomes == {"ok", "err", "hang"}   \* what a call of a hook does: return nil, return an error, never return

\* error values; From names the listener an error comes from
Nil == [from |-> "none", cause |-> "nil"]
ErrServerClosed == [from |-> "none", cause |-> "closed"]
Err(kind, cause) == [from |-> kind, cause |-> cause]

VARIABLES
    ShutdownHooks,   \* s.Config.ShutdownHooks: the hooks in registration order, hook j being the j-th registered
    server,          \* s.server: 0 is nil, k the http.Server built by the k-th Start
    metricsServer,   \* s.metricsServer, likewise
    inShutdown,      \* http.Server.inShutdown of each server object
    gpc,             \* position of each listener goroutine
    gobj,            \* the server object a goroutine called ListenAndServe on
    serverErrors,    \* the serverErrors channel of each Start call
    quit,            \* number of signals buffered in the quit channel of the current Start
    startPc,         \* position of the task calling Start
    starts,          \* Start calls so far
    startResult,     \* value the last Start returned
    via,             \* select branch the last Start left through
    stops,           \* Stop calls so far
    run              \* the gracefulShutdown activation of each task

VARIABLES
    vecs,            \* mc.counters, mc.gauges, mc.histograms, mc.summaries: per kind, prefixed name -> number of label names
    registry,        \* mc.registry: fully-qualified name -> the collector registered under it
    series,          \* the children of each collector: name -> (label values -> value)
    builtin,         \* values of the three built-in HTTP collectors
    mres,            \* outcome of the last call on the collector
    regs,            \* Register* calls so far
    obs,             \* observation calls so far
    reqs             \* requests the metrics middleware has served

VARIABLES
    mu,              \* mc.mu, the collector's sync.RWMutex
    tpc,             \* position of each task that uses the collector concurrently
    seen,            \* per incrementing task, the value of the child when it obtained it
    base,            \* value of the counter when the tasks were started
    gathered         \* value of the counter in the last export

VARIABLES
    middlewares,     \* s.middlewares: the links, in the order of the slice
    healthChecker,   \* whether s.HealthChecker is non-nil
    mux,             \* s.mux: pattern -> the handler registered for it
    applied,         \* the arguments and the result of the last call of applyMiddleware
    served           \* what the last request went through, and whether it ended in a panic

VARIABLES
    rq,              \* per request on the primary listener: where its serving task is, and what it has done
    httpTotal,       \* children of mc.httpRequestsTotal: status_code label -> value
    httpDuration     \* children of mc.httpRequestDuration: status_code label -> number of observations

VARIABLES
    checks,          \* the probes registered in the health checker: name -> its health.Config
    hres,            \* the last call on the health checker or on a health endpoint, and its result
    hprev            \* the evaluation before the last one: what the probes did and whether it was healthy

VARIABLES
    acc              \* the last call of a request-context accessor: the context it was given and what it returned

lifeVars == <<ShutdownHooks, server, metricsServer, inShutdown, gpc, gobj,
              serverErrors, quit, startPc, starts, startResult, via,
              stops, run>>
metricsVars == <<vecs, registry, series, builtin, mres, regs, obs, reqs>>
concVars == <<mu, tpc, seen, base, gathered>>
chainVars == <<middlewares, healthChecker, mux, applied, served>>
httpVars == <<rq, httpTotal, httpDuration>>
healthVars == <<checks, hres, hprev>>
accVars == <<acc>>
appVars == <<metricsVars, concVars, chainVars, httpVars, healthVars, accVars>>
notMetricsVars == <<lifeVars, concVars, chainVars, httpVars, healthVars, accVars>>
notCollectorVars == <<lifeVars, chainVars, httpVars, healthVars, accVars>>
notChainVars == <<lifeVars, metricsVars, concVars, httpVars, healthVars, accVars>>
notHealthVars == <<lifeVars, metricsVars, concVars, chainVars, httpVars, accVars>>

vars == <<lifeVars, appVars>>

svcVars == <<server, metricsServer, inShutdown, gpc, gobj, serverErrors>>
startVars == <<startPc, starts, startResult, via>>
stopVars == <<stops>>

Handle(kind) == IF kind = "primary" THEN server ELSE metricsServer

\* the locals of one activation of gracefulShutdown, with what it did so far:
\* n hooks to iterate, i iterations done, expired: the deadline of ctx has
\* passed, errs: shutdownErrors, result: the value of the return statement
\* reached; and, recorded for the properties, the hooks
\* called (in order), whether one of them returned an error (hookFailed), the
\* listeners whose handle was nil, whose Shutdown was called (att), whose
\* Shutdown returned an error (failed)
IdleRun == [pc |-> "idle", n |-> 0, i |-> 0, expired |-> FALSE, errs |-> <<>>,
            result |-> Nil, called |-> <<>>, hookFailed |-> FALSE, seenNil |-> {},
            att |-> {}, failed |-> {}]

\* ------------------------------------------------- MetricsCollector: data
\* Names are strings, modelled as sequences of symbols: "s" is the service
\* name, "_" the separator, "a" and "b" users' names; "T", "D" and "F" stand for
\* http_requests_total, http_request_duration_seconds, http_requests_in_flight.
ServiceName == <<"s">>
InputNames == {<<"a">>, <<"s", "_", "a">>, <<"b">>}
\* names whose prefixed form is the name of a built-in collector
ReservedInputs == {<<"T">>, <<"D">>, <<"F">>}
MKinds == {"counter", "gauge", "histogram", "summary"}
Ops == {"IncCounter", "AddCounter", "SetGauge", "IncGauge", "DecGauge",
        "AddGauge", "ObserveHistogram", "ObserveSummary"}
Values == {-1, 1}
\* a metric is registered with no label name or with one
Arities == {0, 1}
\* the label values of a call: none or one
LabelTuples == {<<>>, <<"u">>}
\* the values an operation can be given (Inc and Dec take none)
OpValues(op) ==
    IF op \in {"IncCounter", "IncGauge", "DecGauge"} THEN {1} ELSE Values

\* strings.HasPrefix
HasPrefix(str, prefix) ==
    Len(str) >= Len(prefix) /\ SubSeq(str, 1, Len(prefix)) = prefix

\* (mutant) the prefix is added without looking at the name
PrefixAlways(name) == ServiceName \o <<"_">> \o name

\* MetricsCollector.ensureMetricNamePrefix
ensureMetricNamePrefix(name) ==
    IF ~HasPrefix(name, ServiceName \o <<"_">>)
    THEN ServiceName \o <<"_">> \o name
    ELSE name

\* (mutant) every operation looks the name up among the counters
OpKindCounter(op) == "counter"

\* the kind of metric each observation operation looks up
OpKind(op) ==
    CASE op \in {"IncCounter", "AddCounter"} -> "counter"
      [] op \in {"SetGauge", "IncGauge", "DecGauge", "AddGauge"} -> "gauge"
      [] op = "ObserveHistogram" -> "histogram"
      [] op = "ObserveSummary" -> "summary"

\* a fresh child of a collector: n updates so far, v its value (a counter's or
\* gauge's value, the sum of a histogram's or summary's observations)
ZeroSeries == [n |-> 0, v |-> 0]

\* the names NewMetricsCollector gives the three built-in collectors
BuiltinName(which) == ServiceName \o <<"_">> \o <<which>>

\* a collector of the registry: its kind, the number of its label names,
\* whether NewMetricsCollector made it, and, recorded for the properties, the
\* config.Name it was registered with
Collector(kind, labels, isBuiltin, given) ==
    [kind |-> kind, labels |-> labels, builtin |-> isBuiltin, given |-> given]

\* the outcome of a call: the operation, the kind of metric it is about, the
\* name it was given and the prefixed name, what it returned ("panic": it did
\* not return), and whether the label values did not match the label names
Outcome(op, kind, given, name, err, mismatch) ==
    [op |-> op, kind |-> kind, given |-> given, name |-> name, err |-> err,
     mismatch |-> mismatch]

\* NewMetricsCollector: empty maps, and a registry holding the built-in
\* collectors (requests total, request duration, requests in flight)
MetricsInit ==
    /\ vecs = [k \in MKinds |-> <<>>]
    /\ registry = (BuiltinName("T") :> Collector("counter", 3, TRUE, <<>>))
                @@ (BuiltinName("D") :> Collector("histogram", 3, TRUE, <<>>))
                @@ (BuiltinName("F") :> Collector("gauge", 0, TRUE, <<>>))
    /\ series = <<>>
    /\ builtin = [total |-> 0, duration |-> 0, inflight |-> 0]
    /\ mres = [op |-> "none", kind |-> "none", given |-> <<>>, name |-> <<>>,
               err |-> "nil", mismatch |-> FALSE]
    /\ regs = 0
    /\ obs = 0
    /\ reqs = 0

\* the tasks that use the collector concurrently: the incrementing tasks,
\* two tasks that register other metrics, and a scrape of the registry
ObserverNames == <<"o1", "o2", "o3", "o4">>
Observers == {ObserverNames[i] : i \in 1..MaxObservers}
Registrars == {"r1", "r2"}
Exporter == "export"
Tasks == Observers \cup Registrars \cup {Exporter}

\* an unlocked RWMutex: readers holds the number of read locks held, wowner
\* the task that has announced itself as writer (it holds rw.w), wheld
\* whether that task has the write lock
ConcInit ==
    /\ mu = [readers |-> 0, wowner |-> "none", wheld |-> FALSE]
    /\ tpc = [t \in Tasks |-> "none"]
    /\ seen = [t \in Observers |-> 0]
    /\ base = 0
    /\ gathered = 0

\* ------------------------------------------------------- middleware chain
\* the links: the four New installs, the health-checker link, and links of
\* the application
DefaultLinks == {"metrics", "logger", "recovery", "reqlog"}
HealthLink == "health"
UserLinks == {"x", "y"}
\* the application's handler; a handler is the sequence of the links around
\* it, outermost first, ending with it
UserHandler == <<"h">>
Patterns == {"/p", "/q"}
\* where a request panics: nowhere, in the handler, or in a link of the
\* application
PanicPoints == {"none", "h"} \cup UserLinks
\* the lists given to applyMiddleware directly
ChainLinks == UserLinks \cup {"recovery"}
Chains == UNION {[1..n -> ChainLinks] : n \in 0..MaxChain}

\* (mutant) New installs request logging before panic recovery
NewMiddlewaresLogFirst(hc) ==
    <<"metrics", "logger", "reqlog", "recovery">> \o
        (IF hc THEN <<HealthLink>> ELSE <<>>)

\* New: the default list, and the health-checker link if there is a checker
NewMiddlewares(hc) ==
    <<"metrics", "logger", "recovery", "reqlog">> \o
        (IF hc THEN <<HealthLink>> ELSE <<>>)

NoRequest == [trace |-> <<>>, panicking |-> FALSE]

\* the service New returns when NewHealthChecker returned a checker (hc) or
\* an error
NewService(hc) ==
    /\ healthChecker = hc
    /\ middlewares = NewMiddlewares(hc)
    /\ mux = <<>>
    /\ applied = [mws |-> <<>>, h |-> <<>>]
    /\ served = NoRequest

\* ------------------------------------------- requests on the primary listener
Requests == 1..MaxRequests
\* what the handler passes to w.WriteHeader before it returns or panics; 0
\* when it writes nothing
HandlerStatuses == {0, 201}
StatusOK == 200
StatusInternalServerError == 500
StatusLabels == {StatusOK, 201, StatusInternalServerError}

\* a request that has not arrived: pattern is the route it is for, p where it
\* panics, sets what the handler writes, pathOk whether r.URL.Path is valid
\* UTF-8 (a wildcard or subtree pattern also matches a path such as /%ff),
\* statusCode the field of the responseWriter, sent the status the client
\* gets (0: none yet), recovered whether RecoveryMiddleware recovered a panic,
\* escaped whether a panic left the chain into the serving task, links the
\* links and the handler the request entered inside the metrics link
NoRq ==
    [pc |-> "none", pattern |-> "", p |-> "none", sets |-> 0, pathOk |-> TRUE,
     statusCode |-> 0, sent |-> 0, recovered |-> FALSE, counted |-> 0,
     observed |-> 0, escaped |-> FALSE, links |-> <<>>]

HttpInit ==
    /\ rq = [r \in Requests |-> NoRq]
    /\ httpTotal = [c \in StatusLabels |-> 0]
    /\ httpDuration = [c \in StatusLabels |-> 0]

\* ----------------------------------------------------------- health checker
ProbeNames == {"a", "b"}
\* health.Config.Timeout of a probe, and the deadline of the caller's context,
\* in seconds
ProbeTimeouts == {1, 10}
CallerDeadlines == {2}
ReadinessDeadline == 5      \* context.WithTimeout(r.Context(), 5*time.Second)
\* what a probe does in an evaluation: it returns nil, returns an error,
\* does not return within any timeout, or waits for the context to end and
\* returns its error
ProbeOutcomes == {"ok", "fail", "slow", "ctx"}
HealthPath == "/health"
ReadinessPath == "/ready"
LivenessPath == "/live"
OperationalPaths == {HealthPath, ReadinessPath, LivenessPath}

NoCall ==
    [op |-> "none", outs |-> <<>>, status |-> "none", bool |-> FALSE,
     code |-> 0, body |-> "", took |-> 0, deadline |-> 0,
     name |-> "", dup |-> FALSE, returned |-> "none", hc |-> TRUE]
NoEval == [outs |-> <<>>, healthy |-> FALSE, evaluated |-> FALSE]

\* what a request's context holds under LoggerKey and under MetricsKey:
\* nothing, a value of another type, or the value the middleware stores
ContextValues == {"absent", "other", "set"}
Contexts == [logger : ContextValues, metrics : ContextValues]

\* the record of an accessor call: n calls so far, the accessor, the context
\* of the request, the name it was given, the logger it returned, the error
\* it returned
NoAccess == [n |-> 0, op |-> "none",
             ctx |-> [logger |-> "absent", metrics |-> "absent"],
             name |-> <<>>, logger |-> "none", err |-> "none"]

HealthInit ==
    /\ checks = <<>>
    /\ hres = NoCall
    /\ hprev = NoEval

\* no accessor has been called
AccInit == acc = NoAccess

LifeInit ==
    /\ ShutdownHooks = <<>>
    /\ server = 0
    /\ metricsServer = 0
    /\ inShutdown = [k \in Kinds |-> [g \in Gens |-> FALSE]]
    /\ gpc = [k \in Kinds |-> [g \in Gens |-> "none"]]
    /\ gobj = [k \in Kinds |-> [g \in Gens |-> 0]]
    /\ serverErrors = [g \in Gens |-> <<>>]
    /\ quit = 0
    /\ startPc = "idle"
    /\ starts = 0
    /\ startResult = Nil
    /\ via = "none"
    /\ stops = 0
    /\ run = [p \in Procs |-> IdleRun]

\* health.New is given the component only and returns a checker
Init ==
    /\ MetricsInit
    /\ ConcInit
    /\ NewService(TRUE)
    /\ HttpInit
    /\ HealthInit
    /\ AccInit
    /\ LifeInit

\* ------------------------------------------------------------ Service.Start
\* (mutant) the goroutines report every error, ErrServerClosed too
ReportsAnyError(err) == err # Nil

\* (mutant) the negation of errors.Is is missing
ReportsOnlyClosed(err) == err # Nil /\ err = ErrServerClosed

\* the test both listener goroutines apply to what ListenAndServe returned:
\* err != nil && !errors.Is(err, http.ErrServerClosed)
Reports(err) == err # Nil /\ err # ErrServerClosed

\* Start up to the select: the quit channel is made and registered, the
\* serverErrors channel is made, both goroutines are spawned.
StartEnter ==
    /\ starts < MaxStarts
    /\ starts' = starts + 1
    /\ startPc' = "wait"
    /\ via' = "none"
    /\ quit' = 0
    /\ gpc' = [k \in Kinds |-> [gpc[k] EXCEPT ![starts + 1] = "spawned"]]
    /\ run' = [run EXCEPT !["start"] = IdleRun]
    /\ UNCHANGED <<ShutdownHooks, server, metricsServer, inShutdown, gobj,
                   serverErrors, startResult, stops>>
    /\ UNCHANGED appVars

\* a listener goroutine builds its http.Server and stores it in the Service
GStore(kind, k) ==
    /\ gpc[kind][k] = "spawned"
    /\ gpc' = [gpc EXCEPT ![kind][k] = "stored"]
    /\ server' = IF kind = "primary" THEN k ELSE server
    /\ metricsServer' = IF kind = "metrics" THEN k ELSE metricsServer
    /\ UNCHANGED <<ShutdownHooks, inShutdown, gobj, serverErrors, quit, run>>
    /\ UNCHANGED startVars
    /\ UNCHANGED stopVars
    /\ UNCHANGED appVars

\* a goroutine's ListenAndServe returned err: a reported error is logged and
\* sent on the serverErrors channel of its Start call, and the goroutine ends
\* (its final position keeps what ListenAndServe returned)
GoroutineEnd(kind, k, err) ==
    /\ Reports(err) => Len(serverErrors[k]) < ServerErrorsCap
    /\ serverErrors' = IF Reports(err)
                       THEN [serverErrors EXCEPT ![k] = Append(@, err)]
                       ELSE serverErrors
    /\ gpc' = [gpc EXCEPT ![kind][k] =
                 IF err = ErrServerClosed THEN "closed"
                 ELSE IF err.cause = "bind" THEN "bindFailed" ELSE "serveFailed"]

\* ListenAndServe is called on the server the Service field holds now. It returns
\* ErrServerClosed at once on a server already shut down; otherwise the bind
\* either fails or the listener starts serving.
GListen(kind, k) ==
    /\ gpc[kind][k] = "stored"
    /\ LET obj == Handle(kind) IN
       IF inShutdown[kind][obj]
       THEN /\ GoroutineEnd(kind, k, ErrServerClosed)
            /\ UNCHANGED gobj
       ELSE \/ /\ gpc' = [gpc EXCEPT ![kind][k] = "serving"]
               /\ gobj' = [gobj EXCEPT ![kind][k] = obj]
               /\ UNCHANGED serverErrors
            \/ /\ GoroutineEnd(kind, k, Err(kind, "bind"))
               /\ UNCHANGED gobj
    /\ UNCHANGED <<ShutdownHooks, server, metricsServer, inShutdown, quit, run>>
    /\ UNCHANGED startVars
    /\ UNCHANGED stopVars
    /\ UNCHANGED appVars

\* Serve returns: ErrServerClosed once the server was shut down, or a failure
\* of the listener while it was serving
GServeReturn(kind, k) ==
    /\ gpc[kind][k] = "serving"
    /\ IF inShutdown[kind][gobj[kind][k]]
       THEN GoroutineEnd(kind, k, ErrServerClosed)
       ELSE GoroutineEnd(kind, k, Err(kind, "serve"))
    /\ UNCHANGED <<ShutdownHooks, server, metricsServer, inShutdown, gobj, quit, run>>
    /\ UNCHANGED startVars
    /\ UNCHANGED stopVars
    /\ UNCHANGED appVars

\* the listener of server object obj is open and accepting
Listening(kind, obj) ==
    /\ obj # 0
    /\ ~inShutdown[kind][obj]
    /\ \E k \in Gens : gpc[kind][k] = "serving" /\ gobj[kind][k] = obj

Serving(kind) == \E obj \in Gens : Listening(kind, obj)

\* SIGINT/SIGTERM delivered to the registered quit channel while Start is in
\* its select (a signal that finds the buffer full is dropped; one delivered
\* after the select is buffered and never read)
Signal ==
    /\ startPc = "wait"
    /\ quit < QuitCap
    /\ quit' = quit + 1
    /\ UNCHANGED <<ShutdownHooks, run>>
    /\ UNCHANGED svcVars
    /\ UNCHANGED startVars
    /\ UNCHANGED stopVars
    /\ UNCHANGED appVars

\* ------------------------------------------------- Service.gracefulShutdown
\* `for i, hook := range s.Config.ShutdownHooks`: the range expression is
\* evaluated once, before the first iteration, so the loop runs over the n
\* hooks that were registered at that moment
LoopBound(n) == n

\* (mutant) the hooks are called last-registered first
HookAtLifo(j, n) == n - j + 1

\* the position in the hook list of the hook called in the j-th of n iterations
HookAt(j, n) == j

\* (mutant) the loop stops at the first hook that fails
AfterHookFailFast(j, n, err) ==
    IF err # Nil THEN "ret" ELSE IF j < n THEN "hooks" ELSE "server"

\* (mutant) gracefulShutdown returns at the first Shutdown that fails
AfterShutdownFailFast(kind, err) ==
    IF err # Nil THEN "ret" ELSE IF kind = "primary" THEN "metrics" ELSE "ret"

\* (mutant) Shutdown is given a context without a deadline
CtxNeverDone(expired) == FALSE

\* where the loop goes after the hook of iteration j returned err: the error
\* is logged and the loop goes on
AfterHook(j, n, err) == IF j < n THEN "hooks" ELSE "server"

\* shutdownErrors after a hook returned err: hook errors are only logged
ErrsAfterHook(errs, err) == errs

\* shutdownErrors after a listener's Shutdown returned err
ErrsAfterShutdown(errs, err) == IF err # Nil THEN Append(errs, err) ELSE errs

\* where gracefulShutdown goes after a listener's block, whatever Shutdown
\* returned: the primary's block is followed by the operational listener's
AfterShutdown(kind, err) == IF kind = "primary" THEN "metrics" ELSE "ret"

\* the value gracefulShutdown returns: shutdownErrors[0], nil when there is none
ShutdownResult(errs) == IF Len(errs) > 0 THEN errs[1] ELSE Nil

\* ctx.Done() of the context made with context.WithTimeout(.., ShutdownTimeout):
\* Shutdown gives up once the deadline has passed
CtxDone(expired) == expired

\* (mutant) each listener's Shutdown is given a context of its own, made when
\* its block is entered
CtxPerListener(kind, expired) == FALSE

\* the context a listener's Shutdown is given: ctx, the one context made at
\* the entry of gracefulShutdown
CtxShared(kind, expired) == expired

\* the locals r of a run after the Shutdown of listener kind returned err (nil
\* also for a listener skipped): the error is collected, and after the last
\* listener the return statement is reached
Advance(r, kind, err) ==
    LET errs == ErrsAfterShutdown(r.errs, err)
        pc == AfterShutdown(kind, err)
    IN [r EXCEPT !.errs = errs,
                 !.pc = pc,
                 !.result = IF pc = "ret" THEN ShutdownResult(errs) ELSE @]

\* entry of gracefulShutdown by task p: the deadline context is made and the
\* hook list is read for the loop
Begin(p) ==
    run' = [run EXCEPT ![p] =
              [IdleRun EXCEPT !.n = Len(ShutdownHooks),
                              !.pc = IF Len(ShutdownHooks) > 0 THEN "hooks" ELSE "server"]]

\* one iteration of the hook loop: the hook is called and returns nil or an
\* error, or never returns
HookRun(p) ==
    /\ run[p].pc = "hooks"
    /\ LET j == run[p].i + 1
           bound == LoopBound(run[p].n)
           at == HookAt(j, bound)
       IN /\ at \in 1..Len(ShutdownHooks)
          /\ \E out \in HookOutcomes :
               LET err == IF out = "err" THEN Err("hook", "failed") ELSE Nil IN
               IF out = "hang"
               THEN run' = [run EXCEPT ![p].pc = "inhook",
                                       ![p].called = Append(@, ShutdownHooks[at])]
               ELSE run' = [run EXCEPT ![p].i = j,
                                       ![p].called = Append(@, ShutdownHooks[at]),
                                       ![p].hookFailed = @ \/ err # Nil,
                                       ![p].errs = ErrsAfterHook(@, err),
                                       ![p].pc = AfterHook(j, bound, err)]
    /\ UNCHANGED <<ShutdownHooks, quit>>
    /\ UNCHANGED svcVars
    /\ UNCHANGED startVars
    /\ UNCHANGED stopVars
    /\ UNCHANGED appVars

\* (mutant) the operational listener is shut down in the first block, the
\* primary listener in the second
BlockPcSwapped(kind) == IF kind = "primary" THEN "metrics" ELSE "server"

\* the position of the block of gracefulShutdown that shuts each listener
\* down: the primary listener's block comes first
BlockPc(kind) == IF kind = "primary" THEN "server" ELSE "metrics"
WaitPc(kind) == IF kind = "primary" THEN "serverWait" ELSE "metricsWait"

\* server object obj has accepted connections
Served(kind, obj) == \E k \in Gens : gobj[kind][k] = obj

\* `if s.server != nil { err := s.server.Shutdown(ctx) ... }`: a nil handle
\* skips the listener. Otherwise Shutdown marks the server as shutting down and
\* closes its listener; it returns nil at once when no connection is active,
\* and else waits for the connections of a server that served to become idle.
ShutdownCall(p, kind) ==
    /\ run[p].pc = BlockPc(kind)
    /\ LET obj == Handle(kind) IN
       IF obj = 0
       THEN /\ run' = [run EXCEPT ![p] =
                         [Advance(@, kind, Nil) EXCEPT !.seenNil = @ \cup {kind}]]
            /\ UNCHANGED inShutdown
       ELSE /\ inShutdown' = [inShutdown EXCEPT ![kind][obj] = TRUE]
            /\ \/ run' = [run EXCEPT ![p] =
                            [Advance(@, kind, Nil) EXCEPT !.att = @ \cup {kind}]]
               \/ /\ Served(kind, obj)
                  /\ run' = [run EXCEPT ![p].att = @ \cup {kind},
                                        ![p].expired = CtxShared(kind, @),
                                        ![p].pc = WaitPc(kind)]
    /\ UNCHANGED <<ShutdownHooks, server, metricsServer, gpc, gobj, serverErrors,
                   quit>>
    /\ UNCHANGED startVars
    /\ UNCHANGED stopVars
    /\ UNCHANGED appVars

\* the connections became idle while Shutdown was waiting: it returns nil
ShutdownDrained(p, kind) ==
    /\ run[p].pc = WaitPc(kind)
    /\ run' = [run EXCEPT ![p] = Advance(@, kind, Nil)]
    /\ UNCHANGED <<ShutdownHooks, quit>>
    /\ UNCHANGED svcVars
    /\ UNCHANGED startVars
    /\ UNCHANGED stopVars
    /\ UNCHANGED appVars

\* the deadline passed while Shutdown was waiting: it returns ctx.Err()
ShutdownTimeout(p, kind) ==
    /\ run[p].pc = WaitPc(kind)
    /\ CtxDone(run[p].expired)
    /\ LET err == Err(kind, "deadline") IN
       run' = [run EXCEPT ![p] =
                 [Advance(@, kind, err) EXCEPT !.failed = @ \cup {kind}]]
    /\ UNCHANGED <<ShutdownHooks, quit>>
    /\ UNCHANGED svcVars
    /\ UNCHANGED startVars
    /\ UNCHANGED stopVars
    /\ UNCHANGED appVars

\* ShutdownTimeout has passed since task p entered gracefulShutdown. Only a
\* waiting Shutdown reads the deadline, so a deadline that passed earlier in
\* the run is one that has passed when the wait begins.
Expire(p) ==
    /\ run[p].pc \in {"serverWait", "metricsWait"}
    /\ ~run[p].expired
    /\ run' = [run EXCEPT ![p].expired = TRUE]
    /\ UNCHANGED <<ShutdownHooks, quit>>
    /\ UNCHANGED svcVars
    /\ UNCHANGED startVars
    /\ UNCHANGED stopVars
    /\ UNCHANGED appVars

\* gracefulShutdown returns run[p].result: to Start, which returns it in turn,
\* or to Stop, whose caller receives it
GsReturn(p) ==
    /\ run[p].pc = "ret"
    /\ LET res == run[p].result IN
       /\ run' = [run EXCEPT ![p] = IdleRun]
       /\ IF p = "start"
          THEN /\ startPc' = "returned"
               /\ startResult' = res
               /\ UNCHANGED <<starts, via, stops>>
          ELSE UNCHANGED <<stops, startPc, starts, startResult, via>>
    /\ UNCHANGED <<ShutdownHooks, quit>>
    /\ UNCHANGED svcVars
    /\ UNCHANGED appVars

\* ------------------------------------------------ the select of Service.Start
\* case <-quit: then gracefulShutdown
StartSelectQuit ==
    /\ startPc = "wait"
    /\ quit > 0
    /\ quit' = quit - 1
    /\ startPc' = "shutdown"
    /\ via' = "signal"
    /\ Begin("start")
    /\ UNCHANGED <<ShutdownHooks, starts, startResult>>
    /\ UNCHANGED svcVars
    /\ UNCHANGED stopVars
    /\ UNCHANGED appVars

\* case err := <-serverErrors: return err
StartSelectErr ==
    /\ startPc = "wait"
    /\ Len(serverErrors[starts]) > 0
    /\ startResult' = Head(serverErrors[starts])
    /\ serverErrors' = [serverErrors EXCEPT ![starts] = Tail(@)]
    /\ startPc' = "returned"
    /\ via' = "error"
    /\ UNCHANGED <<ShutdownHooks, server, metricsServer, inShutdown, gpc, gobj,
                   quit, starts, run>>
    /\ UNCHANGED stopVars
    /\ UNCHANGED appVars

\* ------------------------------------------------------------- Service.Stop
StopCall ==
    /\ run["stop"].pc = "idle"
    /\ stops < MaxStops
    /\ stops' = stops + 1
    /\ Begin("stop")
    /\ UNCHANGED <<ShutdownHooks, quit>>
    /\ UNCHANGED svcVars
    /\ UNCHANGED startVars
    /\ UNCHANGED appVars

\* --------------------------------------------------- Service.AddShutdownHook
AddShutdownHook ==
    /\ Len(ShutdownHooks) < MaxHooks
    /\ ShutdownHooks' = Append(ShutdownHooks, Len(ShutdownHooks) + 1)
    /\ UNCHANGED <<quit, run>>
    /\ UNCHANGED svcVars
    /\ UNCHANGED startVars
    /\ UNCHANGED stopVars
    /\ UNCHANGED appVars

\* the program calls Start
StartCall ==
    /\ startPc = "idle"
    /\ StartEnter

\* the program calls Start again on a service whose Start has returned
StartAgain ==
    /\ startPc = "returned"
    /\ StartEnter

Next ==
    \/ StartCall
    \/ \E kind \in Kinds, k \in Gens : GStore(kind, k)
    \/ \E kind \in Kinds, k \in Gens : GListen(kind, k)
    \/ \E kind \in Kinds, k \in Gens : GServeReturn(kind, k)
    \/ Signal
    \/ StartSelectQuit
    \/ StartSelectErr
    \/ StopCall
    \/ AddShutdownHook
    \/ \E p \in Procs : HookRun(p)
    \/ \E p \in Procs, kind \in Kinds : ShutdownCall(p, kind)
    \/ \E p \in Procs, kind \in Kinds : ShutdownDrained(p, kind)
    \/ \E p \in Procs, kind \in Kinds : ShutdownTimeout(p, kind)
    \/ \E p \in Procs : Expire(p)
    \/ \E p \in Procs : GsReturn(p)

Spec == Init /\ [][Next]_vars

\* Start called again after it returned, on a service with no hook and no
\* caller of Stop
RestartNext ==
    \/ StartCall
    \/ StartAgain
    \/ \E kind \in Kinds, k \in Gens : GStore(kind, k)
    \/ \E kind \in Kinds, k \in Gens : GListen(kind, k)
    \/ \E kind \in Kinds, k \in Gens : GServeReturn(kind, k)
    \/ Signal
    \/ StartSelectQuit
    \/ StartSelectErr
    \/ \E kind \in Kinds : ShutdownCall("start", kind)
    \/ \E kind \in Kinds : ShutdownDrained("start", kind)
    \/ \E kind \in Kinds : ShutdownTimeout("start", kind)
    \/ Expire("start")
    \/ GsReturn("start")

RestartSpec == Init /\ [][RestartNext]_vars

\* the next step of task p inside gracefulShutdown
RunStep(p) ==
    \/ HookRun(p)
    \/ \E kind \in Kinds : ShutdownCall(p, kind)
    \/ \E kind \in Kinds : ShutdownTimeout(p, kind)
    \/ GsReturn(p)

\* The program calls Start and never Stop: the only shutdown run is the one
\* a signal triggers.
StartOnlyNext ==
    \/ StartCall
    \/ \E kind \in Kinds, k \in Gens : GStore(kind, k)
    \/ \E kind \in Kinds, k \in Gens : GListen(kind, k)
    \/ \E kind \in Kinds, k \in Gens : GServeReturn(kind, k)
    \/ Signal
    \/ StartSelectQuit
    \/ StartSelectErr
    \/ AddShutdownHook
    \/ HookRun("start")
    \/ \E kind \in Kinds : ShutdownCall("start", kind)
    \/ \E kind \in Kinds : ShutdownDrained("start", kind)
    \/ \E kind \in Kinds : ShutdownTimeout("start", kind)
    \/ Expire("start")
    \/ GsReturn("start")

\* Scheduling: a task that can take its next step takes it (the Go scheduler
\* runs every runnable goroutine), the select of Start proceeds once one of
\* its cases is ready, and time passes, so the shutdown deadline elapses.
\* Nothing makes a signal arrive, a listener fail, the connections of a
\* listener become idle, or the program call Start or AddShutdownHook.
Fairness ==
    /\ WF_vars(RunStep("start"))
    /\ WF_vars(Expire("start"))
    /\ WF_vars(StartSelectQuit \/ StartSelectErr)

FairSpec == Init /\ [][StartOnlyNext]_vars /\ Fairness

\* ShutdownTimeout has passed since task p entered gracefulShutdown, while p
\* is in its hooks or between them and a listener's Shutdown: the context is
\* made before the hook loop, so its deadline runs from then
ExpireBeforeWait(p) ==
    /\ run[p].pc \in {"hooks", "inhook", "server", "metrics"}
    /\ ~run[p].expired
    /\ run' = [run EXCEPT ![p].expired = TRUE]
    /\ UNCHANGED <<ShutdownHooks, quit>>
    /\ UNCHANGED svcVars
    /\ UNCHANGED startVars
    /\ UNCHANGED stopVars
    /\ UNCHANGED appVars

\* the signal's shutdown run, with the time since its entry passing in every
\* part of it
DeadlineNext ==
    \/ StartOnlyNext
    \/ ExpireBeforeWait("start")

DeadlineSpec == Init /\ [][DeadlineNext]_vars /\ Fairness

\* ------------------------------------------- MetricsCollector: operations
\* (mutant) the maps are not consulted
ExistsNever(map, prefixedName) == FALSE

\* `_, exists := mc.counters[prefixedName]`, likewise for the other maps
Exists(map, prefixedName) == prefixedName \in DOMAIN map

\* (mutant) the registry accepts every collector
RegistryRejectsNothing(reg, prefixedName) == FALSE

\* (mutant) the registry takes no account of the built-in collectors
RegistryRejectsCustomOnly(reg, prefixedName) ==
    prefixedName \in DOMAIN reg /\ ~reg[prefixedName].builtin

\* mc.registry.Register(collector) fails when a collector is registered under
\* the same fully-qualified name, whatever its kind, labels or help
RegistryRejects(reg, prefixedName) == prefixedName \in DOMAIN reg

\* (mutant) what mc.registry.Register returns is not looked at
RegisterErrMapOnly(kind, prefixedName) ==
    IF Exists(vecs[kind], prefixedName) THEN "exists" ELSE "nil"

\* what Register* of a metric of this kind returns
RegisterErr(kind, prefixedName) ==
    IF Exists(vecs[kind], prefixedName) THEN "exists"
    ELSE IF RegistryRejects(registry, prefixedName) THEN "register"
    ELSE "nil"

\* (mutant) the collector is stored in the map before it is given to the
\* registry, and stays there when the registry rejects it
StoredBeforeRegister(map, prefixedName, labels, err) ==
    IF err # "exists" THEN map @@ (prefixedName :> labels) ELSE map

\* the map of the kind after the call: `mc.counters[prefixedName] = counter`
\* is reached only when both error returns were passed
StoredAfterRegister(map, prefixedName, labels, err) ==
    IF err = "nil" THEN map @@ (prefixedName :> labels) ELSE map

\* RegisterCounter, RegisterGauge, RegisterHistogram, RegisterSummary (the
\* four differ in the map and the collector type only), between mc.mu.Lock
\* and the deferred mc.mu.Unlock
RegisterBody(kind, name, labels) ==
    /\ regs' = regs + 1
    /\ LET prefixedName == ensureMetricNamePrefix(name)
           err == RegisterErr(kind, prefixedName)
       IN /\ mres' = Outcome("Register", kind, name, prefixedName, err, FALSE)
          /\ vecs' = [vecs EXCEPT ![kind] =
                         StoredAfterRegister(@, prefixedName, labels, err)]
          /\ IF err = "nil"
             THEN /\ registry' = registry @@
                       (prefixedName :> Collector(kind, labels, FALSE, name))
                  /\ series' = series @@ (prefixedName :> <<>>)
             ELSE UNCHANGED <<registry, series>>
    /\ UNCHANGED <<builtin, obs, reqs>>

\* a Register* call by a program with one task: the lock is free
MRegister(kind, name, labels) ==
    /\ regs + obs < MaxCalls
    /\ RegisterBody(kind, name, labels)
    /\ UNCHANGED notMetricsVars

\* vec.WithLabelValues(labels...) panics unless it is given as many values as
\* the collector has label names
LabelsAccepted(labels, lvs) == Len(lvs) = labels

\* Counter.Add panics on a negative value
ValueAccepted(op, value) == ~(op = "AddCounter" /\ value < 0)

\* the child after the operation
Apply(op, child, value) ==
    CASE op \in {"IncCounter", "IncGauge"} ->
            [n |-> child.n + 1, v |-> child.v + 1]
      [] op = "DecGauge" -> [n |-> child.n + 1, v |-> child.v - 1]
      [] op = "SetGauge" -> [n |-> child.n + 1, v |-> value]
      [] op \in {"AddCounter", "AddGauge", "ObserveHistogram", "ObserveSummary"} ->
            [n |-> child.n + 1, v |-> child.v + value]

\* the child of collector name for the label values lvs, made on first use
Child(name, lvs) ==
    IF lvs \in DOMAIN series[name] THEN series[name][lvs] ELSE ZeroSeries

\* IncCounter, AddCounter, SetGauge, IncGauge, DecGauge, AddGauge,
\* ObserveHistogram, ObserveSummary, under mc.mu.RLock: look the collector up
\* in the map of the operation's kind, get the child, update it
ObserveBody(op, name, value, lvs) ==
    /\ obs' = obs + 1
    /\ LET prefixedName == ensureMetricNamePrefix(name)
           kind == OpKind(op)
       IN IF ~Exists(vecs[kind], prefixedName)
          THEN /\ mres' = Outcome(op, kind, name, prefixedName, "notfound", FALSE)
               /\ UNCHANGED series
          ELSE IF ~LabelsAccepted(vecs[kind][prefixedName], lvs)
          THEN /\ mres' = Outcome(op, kind, name, prefixedName, "panic", TRUE)
               /\ UNCHANGED series
          ELSE IF ~ValueAccepted(op, value)
          THEN /\ mres' = Outcome(op, kind, name, prefixedName, "panic", FALSE)
               /\ series' = [series EXCEPT ![prefixedName] =
                                (lvs :> Child(prefixedName, lvs)) @@ @]
          ELSE /\ mres' = Outcome(op, kind, name, prefixedName, "nil", FALSE)
               /\ series' = [series EXCEPT ![prefixedName] =
                                (lvs :> Apply(op, Child(prefixedName, lvs), value)) @@ @]
    /\ UNCHANGED <<vecs, registry, builtin, regs, reqs>>

\* an observation call by a program with one task
MObserve(op, name, value, lvs) ==
    /\ regs + obs < MaxCalls
    /\ ObserveBody(op, name, value, lvs)
    /\ UNCHANGED notMetricsVars

\* a program that registers and observes metrics from one task
MetricsNext ==
    \/ \E kind \in MKinds, name \in InputNames, labels \in Arities :
          MRegister(kind, name, labels)
    \/ \E op \in Ops, name \in InputNames, lvs \in LabelTuples :
          \E value \in OpValues(op) : MObserve(op, name, value, lvs)

MetricsSpec == Init /\ [][MetricsNext]_vars

\* --------------------------------- MetricsCollector used by several tasks
\* the counter the tasks increment, registered as "a" with no label
CounterName == ensureMetricNamePrefix(<<"a">>)
\* what each registering task registers: a gauge of its own, and a histogram
\* under the name of the counter
RegArgs(r) ==
    IF r = "r1" THEN [kind |-> "gauge", name |-> <<"b">>, labels |-> 1]
    ELSE [kind |-> "histogram", name |-> <<"a">>, labels |-> 0]

\* the program registers the counter, may increment it, and then starts the
\* tasks
ConcSetup ==
    /\ regs = 0
    /\ tpc[Exporter] = "none"
    /\ MRegister("counter", <<"a">>, 0)

ConcPreInc ==
    /\ regs = 1
    /\ obs = 0
    /\ tpc[Exporter] = "none"
    /\ MObserve("IncCounter", <<"a">>, 1, <<>>)

Spawn ==
    /\ regs = 1
    /\ tpc[Exporter] = "none"
    /\ tpc' = [t \in Tasks |-> "start"]
    /\ base' = Child(CounterName, <<>>).v
    /\ UNCHANGED <<mu, seen, gathered>>
    /\ UNCHANGED metricsVars
    /\ UNCHANGED notCollectorVars

\* (mutant) a read lock is granted only when nobody holds the mutex
ReaderAdmittedExclusive(m) == m.wowner = "none" /\ m.readers = 0

\* sync.RWMutex.RLock returns at once unless a writer has announced itself
\* (Lock was called and has not been followed by Unlock)
ReaderAdmitted(m) == m.wowner = "none"

\* (mutant) the increment writes back the value read when the child was
\* obtained
LostUpdateAdd(cur, old, d) == old + d

\* the atomic addition of Counter.Inc
AtomicAdd(cur, old, d) == cur + d

\* IncCounter, mc.mu.RLock(): the task holds a read lock, or waits for the
\* writer's Unlock
ORLock(t) ==
    /\ tpc[t] = "start"
    /\ IF ReaderAdmitted(mu)
       THEN /\ mu' = [mu EXCEPT !.readers = @ + 1]
            /\ tpc' = [tpc EXCEPT ![t] = "held"]
       ELSE /\ tpc' = [tpc EXCEPT ![t] = "rblocked"]
            /\ UNCHANGED mu
    /\ UNCHANGED <<seen, base, gathered>>
    /\ UNCHANGED metricsVars
    /\ UNCHANGED notCollectorVars

\* IncCounter, the lookup and counter.WithLabelValues(): the child is made on
\* first use
OLookup(t) ==
    /\ tpc[t] = "held"
    /\ IF Exists(vecs["counter"], CounterName)
       THEN /\ seen' = [seen EXCEPT ![t] = Child(CounterName, <<>>).v]
            /\ series' = [series EXCEPT ![CounterName] =
                             (<<>> :> Child(CounterName, <<>>)) @@ @]
            /\ tpc' = [tpc EXCEPT ![t] = "child"]
       ELSE /\ tpc' = [tpc EXCEPT ![t] = "unlock"]
            /\ UNCHANGED <<seen, series>>
    /\ UNCHANGED <<mu, base, gathered>>
    /\ UNCHANGED <<vecs, registry, builtin, mres, regs, obs, reqs>>
    /\ UNCHANGED notCollectorVars

\* IncCounter, .Inc() on the child
OInc(t) ==
    /\ tpc[t] = "child"
    /\ LET cur == series[CounterName][<<>>] IN
       series' = [series EXCEPT ![CounterName][<<>>] =
                     [n |-> cur.n + 1, v |-> AtomicAdd(cur.v, seen[t], 1)]]
    /\ tpc' = [tpc EXCEPT ![t] = "unlock"]
    /\ UNCHANGED <<mu, seen, base, gathered>>
    /\ UNCHANGED <<vecs, registry, builtin, mres, regs, obs, reqs>>
    /\ UNCHANGED notCollectorVars

\* IncCounter, the deferred mc.mu.RUnlock()
ORUnlock(t) ==
    /\ tpc[t] = "unlock"
    /\ mu' = [mu EXCEPT !.readers = @ - 1]
    /\ tpc' = [tpc EXCEPT ![t] = "done"]
    /\ UNCHANGED <<seen, base, gathered>>
    /\ UNCHANGED metricsVars
    /\ UNCHANGED notCollectorVars

\* Register*, mc.mu.Lock(): the task takes rw.w and announces itself, which
\* stops new readers, or waits for rw.w
WLock(r) ==
    /\ tpc[r] = "start"
    /\ IF mu.wowner = "none"
       THEN /\ mu' = [mu EXCEPT !.wowner = r]
            /\ tpc' = [tpc EXCEPT ![r] = "announced"]
       ELSE /\ tpc' = [tpc EXCEPT ![r] = "wwait"]
            /\ UNCHANGED mu
    /\ UNCHANGED <<seen, base, gathered>>
    /\ UNCHANGED metricsVars
    /\ UNCHANGED notCollectorVars

\* a task waiting for rw.w gets it
WAnnounce(r) ==
    /\ tpc[r] = "wwait"
    /\ mu.wowner = "none"
    /\ mu' = [mu EXCEPT !.wowner = r]
    /\ tpc' = [tpc EXCEPT ![r] = "announced"]
    /\ UNCHANGED <<seen, base, gathered>>
    /\ UNCHANGED metricsVars
    /\ UNCHANGED notCollectorVars

\* Lock returns once the read locks held at the announcement are released
WEnter(r) ==
    /\ tpc[r] = "announced"
    /\ mu.readers = 0
    /\ mu' = [mu EXCEPT !.wheld = TRUE]
    /\ tpc' = [tpc EXCEPT ![r] = "wheld"]
    /\ UNCHANGED <<seen, base, gathered>>
    /\ UNCHANGED metricsVars
    /\ UNCHANGED notCollectorVars

\* the body of Register*
WBody(r) ==
    /\ tpc[r] = "wheld"
    /\ RegisterBody(RegArgs(r).kind, RegArgs(r).name, RegArgs(r).labels)
    /\ tpc' = [tpc EXCEPT ![r] = "wunlock"]
    /\ UNCHANGED <<mu, seen, base, gathered>>
    /\ UNCHANGED notCollectorVars

\* the deferred mc.mu.Unlock(): the readers that were waiting get their read
\* lock, and rw.w is released
WUnlock(r) ==
    /\ tpc[r] = "wunlock"
    /\ mu' = [readers |-> Cardinality({t \in Observers : tpc[t] = "rblocked"}),
              wowner |-> "none", wheld |-> FALSE]
    /\ tpc' = [t \in Tasks |->
                 IF t = r THEN "done"
                 ELSE IF tpc[t] = "rblocked" THEN "held"
                 ELSE tpc[t]]
    /\ UNCHANGED <<seen, base, gathered>>
    /\ UNCHANGED metricsVars
    /\ UNCHANGED notCollectorVars

\* a scrape: promhttp.HandlerFor(s.Metrics.GetRegistry(), ...) gathers the
\* registry; GetRegistry returns the field without locking mc.mu
Export ==
    /\ tpc[Exporter] = "start"
    /\ gathered' = Child(CounterName, <<>>).v
    /\ tpc' = [tpc EXCEPT ![Exporter] = "done"]
    /\ UNCHANGED <<mu, seen, base>>
    /\ UNCHANGED metricsVars
    /\ UNCHANGED notCollectorVars

\* the next step of a task
TaskStep(t) ==
    \/ t \in Observers /\ (ORLock(t) \/ OLookup(t) \/ OInc(t) \/ ORUnlock(t))
    \/ t \in Registrars /\ (WLock(t) \/ WAnnounce(t) \/ WEnter(t) \/ WBody(t) \/ WUnlock(t))
    \/ t = Exporter /\ Export

ConcNext ==
    \/ ConcSetup
    \/ ConcPreInc
    \/ Spawn
    \/ \E t \in Observers : ORLock(t)
    \/ \E t \in Observers : OLookup(t)
    \/ \E t \in Observers : OInc(t)
    \/ \E t \in Observers : ORUnlock(t)
    \/ \E r \in Registrars : WLock(r)
    \/ \E r \in Registrars : WAnnounce(r)
    \/ \E r \in Registrars : WEnter(r)
    \/ \E r \in Registrars : WBody(r)
    \/ \E r \in Registrars : WUnlock(r)
    \/ Export

ConcSpec == Init /\ [][ConcNext]_vars

\* every task that can take its next step takes it: the scheduler runs every
\* runnable goroutine, and a waiting Lock or RLock is woken by the Unlock
ConcFairness == \A t \in Tasks : WF_vars(TaskStep(t))

FairConcSpec == Init /\ [][ConcNext]_vars /\ ConcFairness

\* ---------------------- the same metric name registered by several tasks
\* the kinds the registering tasks choose from
RaceKinds == {"counter", "gauge"}

\* the program starts the tasks on a collector that holds the built-in
\* metrics only
RaceSpawn ==
    /\ regs = 0
    /\ obs = 0
    /\ tpc[Exporter] = "none"
    /\ tpc' = [t \in Tasks |-> "start"]
    /\ base' = 0
    /\ UNCHANGED <<mu, seen, gathered>>
    /\ UNCHANGED metricsVars
    /\ UNCHANGED notCollectorVars

\* the body of RegisterCounter or RegisterGauge called by task r with the
\* name "a" and no label; the body is the only part of the call that reads
\* its argument, so the kind is chosen here
WBodyShared(r, kind) ==
    /\ tpc[r] = "wheld"
    /\ RegisterBody(kind, <<"a">>, 0)
    /\ tpc' = [tpc EXCEPT ![r] = "wunlock"]
    /\ UNCHANGED <<mu, seen, base, gathered>>
    /\ UNCHANGED notCollectorVars

\* (mutant) the RUnlock is not deferred: a panic leaves the function with
\* the read lock held
PanicExitNoDefer == "panicked"

\* where a panic inside IncCounter goes: the deferred mc.mu.RUnlock() runs
\* while the panic unwinds
PanicExit == "unwinding"

\* IncCounter called with a label value for the counter registered without
\* label names: the lookup succeeds and counter.WithLabelValues panics
OPanic(t) ==
    /\ tpc[t] = "held"
    /\ Exists(vecs["counter"], CounterName)
    /\ ~LabelsAccepted(vecs["counter"][CounterName], <<"u">>)
    /\ tpc' = [tpc EXCEPT ![t] = PanicExit]
    /\ UNCHANGED <<mu, seen, base, gathered>>
    /\ UNCHANGED metricsVars
    /\ UNCHANGED notCollectorVars

\* the deferred mc.mu.RUnlock() of a panicking IncCounter; the panic then
\* leaves the function
OUnwind(t) ==
    /\ tpc[t] = "unwinding"
    /\ mu' = [mu EXCEPT !.readers = @ - 1]
    /\ tpc' = [tpc EXCEPT ![t] = "panicked"]
    /\ UNCHANGED <<seen, base, gathered>>
    /\ UNCHANGED metricsVars
    /\ UNCHANGED notCollectorVars

\* the next step of a task of the race
RaceStep(t) ==
    \/ t \in Observers /\ (ORLock(t) \/ OLookup(t) \/ OInc(t) \/ ORUnlock(t)
                            \/ OPanic(t) \/ OUnwind(t))
    \/ t \in Registrars /\ (WLock(t) \/ WAnnounce(t) \/ WEnter(t) \/ WUnlock(t)
                             \/ \E kind \in RaceKinds : WBodyShared(t, kind))

\* tasks that register the name "a" as a counter or as a gauge, and tasks
\* that increment the counter "a", with the right label values or with
\* wrong ones, all at the same time
RaceNext ==
    \/ RaceSpawn
    \/ \E t \in Observers : ORLock(t)
    \/ \E t \in Observers : OLookup(t)
    \/ \E t \in Observers : OInc(t)
    \/ \E t \in Observers : ORUnlock(t)
    \/ \E t \in Observers : OPanic(t)
    \/ \E t \in Observers : OUnwind(t)
    \/ \E r \in Registrars : WLock(r)
    \/ \E r \in Registrars : WAnnounce(r)
    \/ \E r \in Registrars : WEnter(r)
    \/ \E r \in Registrars, kind \in RaceKinds : WBodyShared(r, kind)
    \/ \E r \in Registrars : WUnlock(r)

RaceFairness == \A t \in Observers \cup Registrars : WF_vars(RaceStep(t))

RaceSpec == Init /\ [][RaceNext]_vars /\ RaceFairness

\* ------------------------------------------------------- middleware chain
\* middlewares[i](h): the handler the link returns calls next
Wrap(m, next) == <<m>> \o next

\* the loop of applyMiddleware, i running down from the last link
RECURSIVE applyFrom(_, _, _)
applyFrom(h, mws, i) ==
    IF i >= 1 THEN applyFrom(Wrap(mws[i], h), mws, i - 1) ELSE h

\* (mutant) the loop runs from the first link up, so that the last link is
\* outermost
applyMiddlewareForward(h, mws) ==
    [i \in 1..Len(mws) |-> mws[Len(mws) + 1 - i]] \o h

applyMiddleware(h, mws) == applyFrom(h, mws, Len(mws))

Ev(link, at) == [link |-> link, at |-> at]

\* ServeHTTP of a wrapped handler for a request that panics at p: every link
\* does its work and calls next; when next returns the link returns; a panic
\* unwinds the links up to RecoveryMiddleware, whose deferred function
\* recovers it and answers 500, and runs the deferred Dec of MetricsMiddleware
\* on its way
RECURSIVE ServeHTTP(_, _)
ServeHTTP(h, p) ==
    LET m == Head(h) IN
    IF Len(h) = 1
    THEN [trace |-> <<Ev(m, "in")>> \o (IF p = m THEN <<>> ELSE <<Ev(m, "out")>>),
          panicking |-> p = m]
    ELSE IF p = m
    THEN [trace |-> <<Ev(m, "in")>>, panicking |-> TRUE]
    ELSE LET inner == ServeHTTP(Tail(h), p) IN
         IF ~inner.panicking
         THEN [trace |-> <<Ev(m, "in")>> \o inner.trace \o <<Ev(m, "out")>>,
               panicking |-> FALSE]
         ELSE IF m = "recovery"
         THEN [trace |-> <<Ev(m, "in")>> \o inner.trace \o
                           <<Ev(m, "recover"), Ev(m, "out")>>,
               panicking |-> FALSE]
         ELSE IF m = "metrics"
         THEN [trace |-> <<Ev(m, "in")>> \o inner.trace \o <<Ev(m, "deferred")>>,
               panicking |-> TRUE]
         ELSE [trace |-> <<Ev(m, "in")>> \o inner.trace, panicking |-> TRUE]

\* a call of applyMiddleware on a list of links
ApplyChain(mws) ==
    /\ applied' = [mws |-> mws, h |-> applyMiddleware(UserHandler, mws)]
    /\ UNCHANGED <<middlewares, healthChecker, mux, served>>
    /\ UNCHANGED notChainVars

\* a request served by the handler applyMiddleware returned
ServeApplied(p) ==
    /\ applied.h # <<>>
    /\ served' = ServeHTTP(applied.h, p)
    /\ UNCHANGED <<middlewares, healthChecker, mux, applied>>
    /\ UNCHANGED notChainVars

ChainNext ==
    \/ \E mws \in Chains : ApplyChain(mws)
    \/ \E p \in PanicPoints : ServeApplied(p)

ChainSpec == Init /\ [][ChainNext]_vars

\* Service.Use
Use(m) ==
    /\ Len(middlewares) < Len(NewMiddlewares(healthChecker)) + MaxUse
    /\ middlewares' = Append(middlewares, m)
    /\ UNCHANGED <<healthChecker, mux, applied, served>>
    /\ UNCHANGED notChainVars

\* Service.HandleFunc; http.ServeMux.Handle panics on a pattern that is
\* registered already, and registers nothing then
HandleFunc(pattern) ==
    /\ pattern \notin DOMAIN mux
    /\ mux' = (pattern :> applyMiddleware(UserHandler, middlewares)) @@ mux
    /\ UNCHANGED <<middlewares, healthChecker, applied, served>>
    /\ UNCHANGED notChainVars

\* Service.Handle
ServiceHandle(pattern) ==
    /\ pattern \notin DOMAIN mux
    /\ mux' = (pattern :> applyMiddleware(UserHandler, middlewares)) @@ mux
    /\ UNCHANGED <<middlewares, healthChecker, applied, served>>
    /\ UNCHANGED notChainVars

\* a request for a registered pattern
Request(pattern, p) ==
    /\ pattern \in DOMAIN mux
    /\ served' = ServeHTTP(mux[pattern], p)
    /\ UNCHANGED <<middlewares, healthChecker, mux, applied>>
    /\ UNCHANGED notChainVars

\* New, with NewHealthChecker returning a checker or an error
ServiceInit ==
    /\ MetricsInit
    /\ ConcInit
    /\ \E hc \in BOOLEAN : NewService(hc)
    /\ HttpInit
    /\ HealthInit
    /\ AccInit
    /\ LifeInit

ServiceNext ==
    \/ \E m \in UserLinks : Use(m)
    \/ \E pattern \in Patterns : HandleFunc(pattern)
    \/ \E pattern \in Patterns : ServiceHandle(pattern)
    \/ \E pattern \in Patterns, p \in PanicPoints : Request(pattern, p)

ServiceSpec == ServiceInit /\ [][ServiceNext]_vars

\* ------------------------------------------- requests on the primary listener
\* responseWriter.WriteHeader stores the code and passes it on; the
\* http.ResponseWriter below sends the first status it is given and ignores
\* a later one
WriteHeader(w, code) ==
    [w EXCEPT !.statusCode = code, !.sent = IF @ = 0 THEN code ELSE @]

\* (mutant) the Dec is not deferred: it is skipped when a panic passes
DecUnlessPanic(g, panicking) == IF panicking THEN g ELSE g - 1

\* defer metrics.httpRequestsInFlight.Dec()
DeferredDec(g, panicking) == g - 1

\* WithLabelValues panics on a label value that is not valid UTF-8
LabelValuesAccepted(pathOk) == pathOk

Events(tr) == {tr[i] : i \in 1..Len(tr)}
\* where a request for a handler can panic
PanicPointsOf(h) == {"none", "h"} \cup (UserLinks \cap {h[i] : i \in 1..Len(h)})

\* MetricsMiddleware up to next.ServeHTTP: the gauge goes up and the wrapped
\* writer starts with status 200
RqArrive(r, pattern, p, sets, pathOk) ==
    /\ rq[r].pc = "none"
    /\ pattern \in DOMAIN mux
    /\ p \in PanicPointsOf(mux[pattern])
    /\ rq' = [rq EXCEPT ![r] =
                [NoRq EXCEPT !.pc = "next", !.pattern = pattern, !.p = p,
                             !.sets = sets, !.pathOk = pathOk,
                             !.statusCode = StatusOK]]
    /\ builtin' = [builtin EXCEPT !.inflight = @ + 1]
    /\ reqs' = reqs + 1
    /\ UNCHANGED <<httpTotal, httpDuration>>
    /\ UNCHANGED <<vecs, registry, series, mres, regs, obs>>
    /\ UNCHANGED <<lifeVars, concVars, chainVars, healthVars, accVars>>

\* (mutant) a link looks its next handler up in the service's list when the
\* request passes
InnerHandlerCurrent(h, mws) == Tail(applyMiddleware(UserHandler, mws))

\* the next of the metrics link of a registered handler: the handler the link
\* was given when applyMiddleware built the chain
InnerHandler(h, mws) == Tail(h)

\* the links and the handler a request entered, in order
Entered(tr) ==
    LET ins == SelectSeq(tr, LAMBDA e : e.at = "in")
    IN [i \in 1..Len(ins) |-> ins[i].link]

\* next.ServeHTTP(wrapped, r): the links inside the metrics link and the
\* handler; the handler writes its status, if any, before it returns or
\* panics, and RecoveryMiddleware answers a panic with http.Error(w, ..., 500)
RqNext(r) ==
    /\ rq[r].pc = "next"
    /\ LET inner == ServeHTTP(InnerHandler(mux[rq[r].pattern], middlewares), rq[r].p)
           reached == Ev("h", "in") \in Events(inner.trace)
           rec == Ev("recovery", "recover") \in Events(inner.trace)
           w1 == IF reached /\ rq[r].sets # 0
                 THEN WriteHeader(rq[r], rq[r].sets) ELSE rq[r]
           w2 == IF rec THEN WriteHeader(w1, StatusInternalServerError) ELSE w1
       IN rq' = [rq EXCEPT ![r] =
                   [w2 EXCEPT !.recovered = rec,
                              !.escaped = inner.panicking,
                              !.links = Entered(inner.trace),
                              !.pc = IF inner.panicking THEN "exit" ELSE "record"]]
    /\ UNCHANGED <<httpTotal, httpDuration>>
    /\ UNCHANGED metricsVars
    /\ UNCHANGED <<lifeVars, concVars, chainVars, healthVars, accVars>>

\* MetricsMiddleware after next.ServeHTTP returned: the child of the request
\* counter for the method, the path and the status of the wrapped writer is
\* incremented; WithLabelValues panics on a label value it rejects, and
\* nothing is counted then
RqRecord(r) ==
    /\ rq[r].pc = "record"
    /\ IF LabelValuesAccepted(rq[r].pathOk)
       THEN /\ httpTotal' = [httpTotal EXCEPT ![rq[r].statusCode] = @ + 1]
            /\ builtin' = [builtin EXCEPT !.total = @ + 1]
            /\ rq' = [rq EXCEPT ![r].pc = "observe", ![r].counted = 1]
       ELSE /\ rq' = [rq EXCEPT ![r].pc = "exit", ![r].escaped = TRUE]
            /\ UNCHANGED <<httpTotal, builtin>>
    /\ UNCHANGED httpDuration
    /\ UNCHANGED <<vecs, registry, series, mres, regs, obs, reqs>>
    /\ UNCHANGED <<lifeVars, concVars, chainVars, healthVars, accVars>>

\* then the child of the duration histogram for the same label values, which
\* the counter has accepted, observes the duration
RqObserve(r) ==
    /\ rq[r].pc = "observe"
    /\ httpDuration' = [httpDuration EXCEPT ![rq[r].statusCode] = @ + 1]
    /\ builtin' = [builtin EXCEPT !.duration = @ + 1]
    /\ rq' = [rq EXCEPT ![r].pc = "exit", ![r].observed = 1]
    /\ UNCHANGED httpTotal
    /\ UNCHANGED <<vecs, registry, series, mres, regs, obs, reqs>>
    /\ UNCHANGED <<lifeVars, concVars, chainVars, healthVars, accVars>>

\* the metrics link is left, by return or by a panic: the deferred Dec runs;
\* the server sends 200 for a handler that returned without writing
RqExit(r) ==
    /\ rq[r].pc = "exit"
    /\ builtin' = [builtin EXCEPT !.inflight = DeferredDec(@, rq[r].escaped)]
    /\ rq' = [rq EXCEPT ![r].pc = "done",
                        ![r].sent = IF @ = 0 /\ ~rq[r].escaped THEN StatusOK ELSE @]
    /\ UNCHANGED <<httpTotal, httpDuration>>
    /\ UNCHANGED <<vecs, registry, series, mres, regs, obs, reqs>>
    /\ UNCHANGED <<lifeVars, concVars, chainVars, healthVars, accVars>>

\* a service with one route, registered before or after a Use, that serves
\* requests concurrently
RequestNext ==
    \/ mux = <<>> /\ middlewares = NewMiddlewares(healthChecker) /\ Use("x")
    \/ mux = <<>> /\ HandleFunc("/p")
    \/ \E r \in Requests, pattern \in Patterns, p \in PanicPoints,
          sets \in HandlerStatuses, pathOk \in BOOLEAN :
          RqArrive(r, pattern, p, sets, pathOk)
    \/ \E r \in Requests : RqNext(r)
    \/ \E r \in Requests : RqRecord(r)
    \/ \E r \in Requests : RqObserve(r)
    \/ \E r \in Requests : RqExit(r)

RequestSpec == Init /\ [][RequestNext]_vars

\* a service whose routes are registered before, between and after calls of
\* Use, while requests are served
RouteNext ==
    \/ Use("x")
    \/ \E pattern \in Patterns : HandleFunc(pattern)
    \/ \E r \in Requests, pattern \in Patterns, p \in {"none", "x"} :
          RqArrive(r, pattern, p, 0, TRUE)
    \/ \E r \in Requests : RqNext(r)
    \/ \E r \in Requests : RqRecord(r)
    \/ \E r \in Requests : RqObserve(r)
    \/ \E r \in Requests : RqExit(r)

RouteSpec == Init /\ [][RouteNext]_vars

\* ------------------------- a handler wrapped by MetricsMiddleware alone
\* applyMiddleware(h, MetricsMiddleware(mc)): no link stands between the
\* metrics link and the handler
MetricsOnly == applyMiddleware(UserHandler, <<"metrics">>)

\* MetricsMiddleware up to next.ServeHTTP, for the r-th request to such a
\* handler: the gauge goes up and the wrapped writer starts with status 200
ReqBegin(r, p, pathOk) ==
    /\ reqs < MaxReqs
    /\ r = reqs + 1
    /\ rq[r].pc = "none"
    /\ rq' = [rq EXCEPT ![r] =
                [NoRq EXCEPT !.pc = "next", !.p = p, !.pathOk = pathOk,
                             !.statusCode = StatusOK]]
    /\ builtin' = [builtin EXCEPT !.inflight = @ + 1]
    /\ reqs' = reqs + 1
    /\ UNCHANGED <<httpTotal, httpDuration>>
    /\ UNCHANGED <<vecs, registry, series, mres, regs, obs>>
    /\ UNCHANGED <<lifeVars, concVars, chainVars, healthVars, accVars>>

\* next.ServeHTTP(wrapped, r) is the handler itself: when it returns the
\* request goes on to be counted, when it panics the panic passes through
\* the metrics link, whose deferred Dec is all that still runs
ReqNext(r) ==
    /\ rq[r].pc = "next"
    /\ LET inner == ServeHTTP(Tail(MetricsOnly), rq[r].p)
       IN rq' = [rq EXCEPT ![r].escaped = inner.panicking,
                           ![r].links = Entered(inner.trace),
                           ![r].pc = IF inner.panicking THEN "exit" ELSE "record"]
    /\ UNCHANGED <<httpTotal, httpDuration>>
    /\ UNCHANGED metricsVars
    /\ UNCHANGED <<lifeVars, concVars, chainVars, healthVars, accVars>>

\* a program that registers metrics while such a handler serves requests
BuiltinNext ==
    \/ \E kind \in MKinds, name \in ReservedInputs \cup {<<"a">>},
          labels \in Arities :
          MRegister(kind, name, labels)
    \/ \E r \in Requests, p \in {"none", "h"}, pathOk \in BOOLEAN :
          ReqBegin(r, p, pathOk)
    \/ \E r \in Requests : ReqNext(r)
    \/ \E r \in Requests : RqRecord(r)
    \/ \E r \in Requests : RqObserve(r)
    \/ \E r \in Requests : RqExit(r)

BuiltinSpec == Init /\ [][BuiltinNext]_vars

\* ------------------------------------------------ request-context accessors
\* GetLogger: the logger of the context, slog.Default() when the type
\* assertion on the context's value fails
GetLogger(ctx) == IF ctx.logger = "set" THEN "request" ELSE "default"

\* (mutant) the helpers use the collector without looking at the context
GetMetricsUnchecked(ctx) == "collector"

\* GetMetrics: the collector of the context, nil when the type assertion on
\* the context's value fails
GetMetrics(ctx) == IF ctx.metrics = "set" THEN "collector" ELSE "nil"

\* a handler calls GetLogger(r)
CallGetLogger(ctx) ==
    /\ acc.n < MaxAccess
    /\ acc' = [n |-> acc.n + 1, op |-> "GetLogger", ctx |-> ctx, name |-> <<>>,
               logger |-> GetLogger(ctx), err |-> "none"]
    /\ UNCHANGED metricsVars
    /\ UNCHANGED <<lifeVars, concVars, chainVars, httpVars, healthVars>>

\* a handler calls IncCounter(r, ...), AddCounter, SetGauge, IncGauge,
\* DecGauge, AddGauge, ObserveHistogram or ObserveSummary: the error when
\* GetMetrics is nil, the collector's method of the same name otherwise
Helper(ctx, op, name, value, lvs) ==
    /\ acc.n < MaxAccess
    /\ IF GetMetrics(ctx) = "nil"
       THEN /\ acc' = [n |-> acc.n + 1, op |-> op, ctx |-> ctx, name |-> name,
                       logger |-> "none", err |-> "unavailable"]
            /\ UNCHANGED metricsVars
       ELSE /\ regs + obs < MaxCalls
            /\ ObserveBody(op, name, value, lvs)
            /\ acc' = [n |-> acc.n + 1, op |-> op, ctx |-> ctx, name |-> name,
                       logger |-> "none", err |-> mres'.err]
    /\ UNCHANGED <<lifeVars, concVars, chainVars, httpVars, healthVars>>

\* a program that registers the metric "a" without labels and whose handlers
\* use the accessors on requests with and without the middlewares' context
\* values
AccessNext ==
    \/ \E kind \in MKinds : MRegister(kind, <<"a">>, 0)
    \/ \E ctx \in Contexts : CallGetLogger(ctx)
    \/ \E ctx \in Contexts, op \in Ops :
          \E value \in OpValues(op) : Helper(ctx, op, <<"a">>, value, <<>>)

AccessSpec == Init /\ [][AccessNext]_vars

\* ----------------------------------------------------------- health checker
\* getAvailability of the health library: a failed probe with SkipOnErr makes
\* the status partially available, any other failed probe unavailable
getAvailability(st, skipOnErr) ==
    IF skipOnErr /\ st # "Unavailable" THEN "PartiallyAvailable" ELSE "Unavailable"

\* (mutant) an evaluation starts from the result of the one before
InitialStatusKept(prev) ==
    IF prev.evaluated /\ ~prev.healthy THEN "Unavailable" ELSE "OK"

\* Measure starts every evaluation with status OK
InitialStatus(prev) == "OK"

\* the probes that failed in an evaluation: they returned an error or did not
\* answer within their timeout
Failed(outs) == {n \in DOMAIN outs : outs[n] # "ok"}

RECURSIVE FoldStatus(_, _)
FoldStatus(st, names) ==
    IF names = {} THEN st
    ELSE LET n == CHOOSE x \in names : TRUE
         IN FoldStatus(getAvailability(st, checks[n].skipOnErr), names \ {n})

\* hc.checker.Measure(ctx): the status of an evaluation
Measure(outs) == FoldStatus(InitialStatus(hprev), Failed(outs))

Min2(a, b) == IF a <= b THEN a ELSE b
\* when the probe n is resolved in an evaluation whose context ends at d
\* (0: it has no deadline): at once, at its own timeout, or at the end of
\* the context if that is earlier
ResolvedAt(n, out, d) ==
    IF out \in {"ok", "fail"} THEN 0
    ELSE IF out = "slow" \/ d = 0 THEN checks[n].timeout
    ELSE Min2(d, checks[n].timeout)

\* how long Measure runs: it waits for every probe and for nothing else
Took(outs, d) ==
    LET ts == {0} \cup {ResolvedAt(n, outs[n], d) : n \in DOMAIN outs}
    IN CHOOSE t \in ts : \A u \in ts : u <= t

\* HealthChecker.IsHealthy
IsHealthy(status) == status = "OK"

\* (mutant) readiness is as lenient as liveness
IsReadyAlways(status) == TRUE

\* HealthChecker.IsReady
IsReady(status) == IsHealthy(status)

\* (mutant) liveness follows the probes
IsAliveWhenHealthy(outs) == Failed(outs) = {}

\* HealthChecker.IsAlive
IsAlive(outs) == TRUE

Response(code, body) == [code |-> code, body |-> body]
\* the answers of ReadinessHandler, of LivenessHandler, and of the library's
\* Handler, which answers 503 only when the status is unavailable
ReadinessResponse(ready) ==
    IF ready THEN Response(200, "Ready") ELSE Response(503, "Not Ready")
LivenessResponse(alive) ==
    IF alive THEN Response(200, "Alive") ELSE Response(503, "Not Alive")
HealthResponse(status) ==
    IF status = "Unavailable" THEN Response(503, status) ELSE Response(200, status)

\* (mutant) no endpoint without a health checker
NoFallback(path) == Response(404, "")

\* the handlers startMetricsServer installs when there is no health checker
Fallback(path) ==
    IF path = HealthPath THEN Response(200, "OK")
    ELSE IF path = ReadinessPath THEN Response(200, "Ready")
    ELSE Response(200, "Alive")

\* what the last call leaves for the next: the last evaluation
Shift ==
    IF hres.status # "none"
    THEN [outs |-> hres.outs, healthy |-> hres.status = "OK", evaluated |-> TRUE]
    ELSE hprev

\* what HealthChecker.Register gives its caller: it is declared without a
\* result, and what hc.checker.Register returned is dropped
RegisterResult(dup) == "none"

\* the value of `s.HealthChecker.Register(config)` in RegisterHealthCheck,
\* which is declared to return an error: the error of a Register that has a
\* result, AlreadyExists for a name that is registered and nil otherwise
RegisterValue(dup) == IF dup THEN "error" ELSE "nil"

\* Service.RegisterHealthCheck: the value of Register with a health checker,
\* nil (after a warning) without one
RegisterHealthCheckResult(hc, dup) == IF hc THEN RegisterValue(dup) ELSE "nil"

\* HealthChecker.Register and Service.RegisterHealthCheck: the library keeps
\* the first probe of a name and returns an error for a second one
HRegister(op, name, skipOnErr, timeout) ==
    /\ op = "Register" => healthChecker
    /\ LET dup == name \in DOMAIN checks IN
       /\ checks' = IF healthChecker /\ ~dup
                    THEN (name :> [skipOnErr |-> skipOnErr, timeout |-> timeout]) @@ checks
                    ELSE checks
       /\ hres' = [NoCall EXCEPT !.op = op, !.name = name, !.dup = dup,
                                 !.hc = healthChecker,
                                 !.returned =
                                    IF op = "Register" THEN RegisterResult(dup)
                                    ELSE RegisterHealthCheckResult(healthChecker, dup)]
    /\ hprev' = Shift
    /\ UNCHANGED notHealthVars

\* Measure, IsHealthy, IsReady with a context that ends at d
HEval(op, d, outs) ==
    /\ healthChecker
    /\ LET status == Measure(outs) IN
       hres' = [NoCall EXCEPT !.op = op, !.outs = outs, !.status = status,
                              !.bool = IF op = "IsReady" THEN IsReady(status)
                                       ELSE IsHealthy(status),
                              !.took = Took(outs, d), !.deadline = d]
    /\ hprev' = Shift
    /\ UNCHANGED checks
    /\ UNCHANGED notHealthVars

\* HealthChecker.IsAlive
HAlive(outs) ==
    /\ healthChecker
    /\ hres' = [NoCall EXCEPT !.op = "IsAlive", !.outs = outs,
                              !.bool = IsAlive(outs)]
    /\ hprev' = Shift
    /\ UNCHANGED checks
    /\ UNCHANGED notHealthVars

\* a request on the operational listener for one of the three paths
OpRequest(path, outs) ==
    /\ LET status == Measure(outs)
           resp == IF ~healthChecker THEN Fallback(path)
                   ELSE IF path = HealthPath THEN HealthResponse(status)
                   ELSE IF path = ReadinessPath THEN ReadinessResponse(IsReady(status))
                   ELSE LivenessResponse(IsAlive(outs))
       IN hres' = [NoCall EXCEPT !.op = path, !.outs = outs, !.hc = healthChecker,
                     !.status = IF healthChecker /\ path # LivenessPath
                                THEN status ELSE "none",
                     !.bool = resp.code = 200,
                     !.code = resp.code, !.body = resp.body,
                     !.took = IF healthChecker /\ path # LivenessPath
                              THEN Took(outs, IF path = ReadinessPath
                                              THEN ReadinessDeadline ELSE 0)
                              ELSE 0,
                     !.deadline = IF path = ReadinessPath THEN ReadinessDeadline ELSE 0]
    /\ hprev' = Shift
    /\ UNCHANGED checks
    /\ UNCHANGED notHealthVars

HealthNext ==
    \/ \E op \in {"Register", "RegisterHealthCheck"}, name \in ProbeNames,
          skipOnErr \in BOOLEAN, timeout \in ProbeTimeouts :
          HRegister(op, name, skipOnErr, timeout)
    \/ \E op \in {"Measure", "IsHealthy", "IsReady"}, d \in CallerDeadlines :
          \E outs \in [DOMAIN checks -> ProbeOutcomes] : HEval(op, d, outs)
    \/ \E outs \in [DOMAIN checks -> ProbeOutcomes] : HAlive(outs)
    \/ \E path \in OperationalPaths :
          \E outs \in [DOMAIN checks -> ProbeOutcomes] : OpRequest(path, outs)

HealthSpec == ServiceInit /\ [][HealthNext]_vars

\* ============================================================== properties
RunActive(p) == run[p].pc # "idle"
ErrSet(errs) == {errs[x] : x \in 1..Len(errs)}
Upto(k) == [x \in 1..k |-> x]

\* a signal was delivered while the current Start was in its select
SignalDelivered == quit > 0 \/ via = "signal"

\* C1: when a signal was delivered while Start was in its select, Start
\* returns only after the whole shutdown sequence: it does not return through
\* the error case, and the run it returns from has called every hook
\* registered when it began and the Shutdown of both listeners
C1_SignalRunsWholeShutdown ==
    /\ startPc = "returned" /\ SignalDelivered => via = "signal"
    /\ run["start"].pc = "ret" =>
          /\ run["start"].called = Upto(run["start"].n)
          /\ run["start"].att = Kinds

\* C2: once Start has returned because a listener failed, no listener serves
C2_ListenerFailureStopsBoth ==
    startPc = "returned" /\ via = "error" => \A kind \in Kinds : ~Serving(kind)

\* C3: once Start has returned from a signal-triggered shutdown, no listener
\* serves, then or later, whether or not its goroutine had stored its handle
\* when the shutdown inspected it
C3_NoListenerAfterStart ==
    startPc = "returned" /\ via = "signal" => \A kind \in Kinds : ~Serving(kind)

\* C4: a shutdown run takes each listener in turn whatever the Shutdown of the
\* other returned: at its return statement every listener whose handle was
\* stored has had its Shutdown called, and the value it returns is the
\* primary's error when the primary failed, else the operational listener's
\* when that failed, else nil
C4_BothAttemptedFirstError ==
    \A p \in Procs : run[p].pc = "ret" =>
       /\ run[p].att \cup run[p].seenNil = Kinds
       /\ run[p].att \cap run[p].seenNil = {}
       /\ run[p].result = IF "primary" \in run[p].failed
                             THEN Err("primary", "deadline")
                          ELSE IF "metrics" \in run[p].failed
                             THEN Err("metrics", "deadline")
                          ELSE Nil

\* a run about to return after the Shutdown of both listeners failed
C4_Witness ==
    \E p \in Procs :
       /\ run[p].pc = "ret"
       /\ run[p].failed = Kinds
       /\ run[p].att = Kinds
       /\ run[p].result = Err("primary", "deadline")

\* C5: a run calls the hooks in registration order, one after the other, each
\* once: what it has called is always the first hooks of the list, never more
\* than the n registered when it began, and all n of them once the loop is over
C5_HooksFifoOnce ==
    \A p \in Procs :
       /\ run[p].n <= Len(ShutdownHooks)
       /\ Len(run[p].called) <= run[p].n
       /\ run[p].called = Upto(Len(run[p].called))
       /\ run[p].pc \in {"server", "serverWait", "metrics", "metricsWait", "ret"}
             => run[p].called = Upto(run[p].n)

\* Start's run, begun with one hook, is over its loop without the hook added
\* since, while Stop's run, begun later, has called both hooks in order
C5_Witness ==
    /\ run["start"].pc = "ret"
    /\ run["start"].called = <<1>>
    /\ run["stop"].pc = "ret"
    /\ run["stop"].called = <<1, 2>>

\* C6: a run in which a hook returned an error still calls every hook and the
\* Shutdown of every listener whose handle is stored, and returns nil when no
\* Shutdown failed, never the hook's error
C6_HookErrorIgnored ==
    \A p \in Procs : run[p].pc = "ret" /\ run[p].hookFailed =>
       /\ run[p].called = Upto(run[p].n)
       /\ run[p].att \cup run[p].seenNil = Kinds
       /\ run[p].result.from # "hook"
       /\ run[p].failed = {} => run[p].result = Nil

\* a run in which a hook failed, about to return nil after both hooks and both
\* listener shutdowns
C6_Witness ==
    \E p \in Procs :
       /\ run[p].pc = "ret"
       /\ run[p].hookFailed
       /\ run[p].called = <<1, 2>>
       /\ run[p].att = Kinds
       /\ run[p].result = Nil

\* C7: a shutdown run that has begun ends, unless it is inside a hook that
\* never returns: a listener's Shutdown returns when its connections are idle
\* and at the latest when the deadline has passed, and then with an error that
\* gracefulShutdown returns (an error of a listener is only ever the deadline's)
C7_ShutdownTerminates ==
    /\ RunActive("start") ~> (run["start"].pc = "idle" \/ run["start"].pc = "inhook")
    /\ [](\A e \in ErrSet(run["start"].errs) :
             e.cause = "deadline" /\ run["start"].expired)
    /\ [](run["start"].pc = "ret" /\ run["start"].expired
             /\ run["start"].failed # {} => run["start"].result.cause = "deadline")

\* a run about to return the deadline error of a listener, all hooks returned
C7_Witness ==
    /\ run["start"].pc = "ret"
    /\ run["start"].n > 0
    /\ run["start"].called = Upto(run["start"].n)
    /\ run["start"].failed # {}
    /\ run["start"].errs[1].cause = "deadline"

\* C8: a listener is launched at most once over the life of the service: a
\* Start issued after the service stopped binds no listener again
C8_NoRelaunch ==
    \A kind \in Kinds : Cardinality({k \in Gens : gobj[kind][k] # 0}) <= 1

\* C9: Start is out of its select only through a signal or through the error
\* of a listener that failed; ErrServerClosed is never put on serverErrors, so
\* a listener that ends with it leaves Start where it is
C9_StartBlocksUntilSignalOrFailure ==
    /\ \A k \in Gens : \A e \in ErrSet(serverErrors[k]) :
          e.cause \in {"bind", "serve"}
    /\ startPc \in {"idle", "wait"} => via = "none"
    /\ startPc = "shutdown" => via = "signal"
    /\ startPc = "returned" => via \in {"signal", "error"}
    /\ startPc = "returned" /\ via = "error" =>
          /\ startResult.cause \in {"bind", "serve"}
          /\ gpc[startResult.from][starts] =
                IF startResult.cause = "bind" THEN "bindFailed" ELSE "serveFailed"

\* Start still in its select, no signal delivered, after the primary listener
\* ended with ErrServerClosed
C9_Witness ==
    /\ startPc = "wait"
    /\ quit = 0
    /\ gpc["primary"][starts] = "closed"
    /\ serverErrors[starts] = <<>>

\* C10: a Start in its select leaves it once a listener of its own has failed
\* to bind, signal or not: the bind error of either listener is on serverErrors
\* for the select to take; and a Start that returned through the error case
\* returned the error of a listener of its own that failed
C10_BindFailureReturns ==
    /\ \A kind \in Kinds :
          (startPc = "wait" /\ gpc[kind][starts] = "bindFailed") ~> (startPc # "wait")
    /\ [](\A kind \in Kinds :
             startPc = "wait" /\ gpc[kind][starts] = "bindFailed" =>
                Err(kind, "bind") \in ErrSet(serverErrors[starts]))
    /\ [](startPc = "returned" /\ via = "error" =>
             /\ startResult.cause \in {"bind", "serve"}
             /\ gpc[startResult.from][starts] =
                   IF startResult.cause = "bind" THEN "bindFailed" ELSE "serveFailed")

\* Start has returned the bind error of the operational listener, no signal
\* delivered, while the primary listener has not failed
C10_Witness ==
    /\ startPc = "returned"
    /\ via = "error"
    /\ quit = 0
    /\ startResult = Err("metrics", "bind")
    /\ gpc["primary"][starts] \notin {"bindFailed", "serveFailed"}

\* ------------------------------------------------------ MetricsCollector
\* the step is a call of Register*, of an observation operation
Registered == regs' = regs + 1
Observed == obs' = obs + 1
\* the maps, the registry and every series are as before the step
MetricsKept == vecs' = vecs /\ registry' = registry /\ series' = series
\* the kind of metric an observation operation is about, by its name
CounterOps == {"IncCounter", "AddCounter"}
GaugeOps == {"SetGauge", "IncGauge", "DecGauge", "AddGauge"}
KindNamed(op) ==
    IF op \in CounterOps THEN "counter"
    ELSE IF op \in GaugeOps THEN "gauge"
    ELSE IF op = "ObserveHistogram" THEN "histogram"
    ELSE "summary"
\* every string of at most MaxNameLen symbols
AllNames == UNION {[1..k -> {"s", "_", "a"}] : k \in 0..MaxNameLen}
BuiltinNames == {BuiltinName("T"), BuiltinName("D"), BuiltinName("F")}

\* C11: a Register* call for a prefixed name that is already in the map of
\* its kind returns the 'already exists' error and leaves the maps, the
\* registry and every series with its values as they were; and every metric
\* of a map has its collector and its series, so it can still be observed
C11_DuplicateKeepsFirst ==
    /\ [][Registered /\ mres'.name \in DOMAIN vecs[mres'.kind]
            => mres'.err = "exists" /\ MetricsKept]_vars
    /\ [](\A kind \in MKinds : \A name \in DOMAIN vecs[kind] :
             /\ name \in DOMAIN registry
             /\ registry[name].kind = kind
             /\ registry[name].labels = vecs[kind][name]
             /\ name \in DOMAIN series)

\* a duplicate registration was refused while the metric registered first
\* holds a series that has been updated
C11_Witness ==
    /\ mres.op = "Register"
    /\ mres.err = "exists"
    /\ mres.kind = "counter"
    /\ mres.name \in DOMAIN vecs["counter"]
    /\ <<"u">> \in DOMAIN series[mres.name]
    /\ series[mres.name][<<"u">>].v = 1

\* C12: a prefixed name is held by at most one metric, whatever the kinds: no
\* name is in two maps, the registry's user collectors are exactly the metrics
\* of the maps, and a Register* call that succeeded is the one holding its name
C12_NameHeldOnce ==
    /\ \A k1 \in MKinds : \A k2 \in MKinds \ {k1} :
          DOMAIN vecs[k1] \cap DOMAIN vecs[k2] = {}
    /\ {name \in DOMAIN registry : ~registry[name].builtin}
          = UNION {DOMAIN vecs[kind] : kind \in MKinds}
    /\ \A kind \in MKinds : \A name \in DOMAIN vecs[kind] :
          registry[name].kind = kind
    /\ mres.op = "Register" /\ mres.err = "nil" =>
          /\ registry[mres.name].kind = mres.kind
          /\ registry[mres.name].given = mres.given
    /\ mres.op = "Register" /\ mres.err # "nil" =>
          /\ mres.name \in DOMAIN registry
          /\ mres.name \notin DOMAIN vecs[mres.kind] => mres.err = "register"

\* registering a gauge under the name of a registered counter was refused
C12_Witness ==
    /\ mres.op = "Register"
    /\ mres.kind = "gauge"
    /\ mres.err = "register"
    /\ mres.name \in DOMAIN vecs["counter"]
    /\ mres.name \notin DOMAIN vecs["gauge"]

\* C13: the three built-in names always designate the collectors made by
\* NewMetricsCollector, which are the ones the metrics middleware updates: a
\* Register* call for one of them returns an error, of whatever kind, no map
\* holds one of them, and what the built-in series hold is what the middleware
\* did for the requests: the gauge is the number of requests inside the link,
\* the counter the number of requests counted, the histogram the number of
\* durations observed
C13_BuiltinNamesReserved ==
    /\ registry[BuiltinName("T")] = Collector("counter", 3, TRUE, <<>>)
    /\ registry[BuiltinName("D")] = Collector("histogram", 3, TRUE, <<>>)
    /\ registry[BuiltinName("F")] = Collector("gauge", 0, TRUE, <<>>)
    /\ \A kind \in MKinds : DOMAIN vecs[kind] \cap BuiltinNames = {}
    /\ mres.op = "Register" /\ mres.name \in BuiltinNames => mres.err = "register"
    /\ builtin.inflight = Cardinality({r \in Requests :
                              rq[r].pc \in {"next", "record", "observe", "exit"}})
    /\ builtin.total = Cardinality({r \in Requests : rq[r].counted = 1})
    /\ builtin.duration = Cardinality({r \in Requests : rq[r].observed = 1})

\* a histogram was refused under the name of the built-in request counter,
\* and a request has been counted by the middleware
C13_Witness ==
    /\ mres.op = "Register"
    /\ mres.kind = "histogram"
    /\ mres.name = BuiltinName("T")
    /\ mres.err = "register"
    /\ builtin.total = 1

\* C14: prefixing a prefixed name returns it unchanged, for every string; the
\* metrics are held under prefixed names only, each call works on the prefixed
\* form of the name it is given, and a Register* call that gives a name
\* another form of which holds a metric is refused
C14_PrefixIdempotent ==
    /\ \A name \in AllNames :
          ensureMetricNamePrefix(ensureMetricNamePrefix(name))
             = ensureMetricNamePrefix(name)
    /\ \A name \in DOMAIN registry : ensureMetricNamePrefix(name) = name
    /\ \A kind \in MKinds : \A name \in DOMAIN vecs[kind] :
          ensureMetricNamePrefix(name) = name
    /\ mres.op # "none" =>
          /\ HasPrefix(mres.name, <<"s", "_">>)
          /\ mres.name \in {mres.given, <<"s", "_">> \o mres.given}
    /\ mres.op = "Register" /\ mres.name \in DOMAIN registry
          /\ registry[mres.name].given # mres.given => mres.err # "nil"
    /\ mres.op \in Ops /\ mres.name \in DOMAIN vecs[mres.kind]
          => mres.err # "notfound"

\* a metric registered under its bare name has been observed under its
\* prefixed name
C14_Witness ==
    /\ mres.op = "IncCounter"
    /\ mres.err = "nil"
    /\ mres.given = <<"s", "_", "a">>
    /\ registry[mres.name].given = <<"a">>
    /\ series[mres.name][<<>>].v = 1

\* C15: an observation of a name that is not in the map of the operation's
\* kind returns the 'not found' error and leaves every series, the maps and
\* the registry as they were
C15_UnknownNameNotFound ==
    [][Observed /\ mres'.name \notin DOMAIN vecs[KindNamed(mres'.op)]
          => mres'.err = "notfound" /\ MetricsKept]_vars

\* a gauge operation was refused on a name registered as a counter only
C15_Witness ==
    /\ mres.op = "SetGauge"
    /\ mres.err = "notfound"
    /\ mres.name \in DOMAIN vecs["counter"]
    /\ mres.name \notin DOMAIN vecs["gauge"]

\* C16: an observation whose label values do not match the label names of the
\* metric returns a result to its caller
C16_ArityMismatchReturned ==
    mres.mismatch => mres.err # "panic"

\* the tasks have been started
Spawned == tpc[Exporter] # "none"
\* the incrementing tasks whose Inc has been executed
Incremented == {t \in Observers : tpc[t] \in {"unlock", "done"}}
\* the tasks that hold a read lock
ReadHolders == {t \in Observers : tpc[t] \in {"held", "child", "unlock"}}

\* C17: the counter's value is its value when the tasks were started plus the
\* number of tasks that have executed their increment, in every interleaving
\* with the registrations and the export: once all N tasks are done it is the
\* previous value plus N, and an export sees a value between the two
C17_NoLostIncrement ==
    Spawned =>
       /\ CounterName \in DOMAIN vecs["counter"]
       /\ Child(CounterName, <<>>).v = base + Cardinality(Incremented)
       /\ tpc[Exporter] = "done" =>
             gathered \in base..(base + Cardinality(Observers))

\* all tasks are done: the counter, 1 before, has been incremented by each
\* task, while the two registrations and the export ran
C17_Witness ==
    /\ \A t \in Tasks : tpc[t] = "done"
    /\ base = 1
    /\ series[CounterName][<<>>].v = 1 + MaxObservers
    /\ gathered = 2
    /\ ensureMetricNamePrefix(<<"b">>) \in DOMAIN vecs["gauge"]

\* C18: a step of the export leaves mc.mu alone; the incrementing tasks hold
\* read locks, several at a time and never together with a writer; a task
\* waits in RLock only while a registration has called Lock and not yet
\* returned from Unlock; and a registration that has called Lock gets the lock
C18_ObservationsShareLock ==
    /\ [][tpc'[Exporter] # tpc[Exporter] /\ tpc[Exporter] = "start" => mu' = mu]_vars
    /\ [](mu.readers = Cardinality(ReadHolders))
    /\ [](mu.wheld => ReadHolders = {})
    /\ [](\A t \in Observers : tpc[t] = "rblocked" => mu.wowner \in Registrars)
    /\ \A r \in Registrars :
          (tpc[r] \in {"wwait", "announced"}) ~> (tpc[r] = "wheld")

\* two tasks hold a read lock at the same time, the export is done, and a
\* registration waits for them
C18_Witness ==
    /\ Cardinality(ReadHolders) = 2
    /\ tpc[Exporter] = "done"
    /\ tpc["r1"] = "announced"
    /\ tpc["r2"] = "wwait"

\* the events of entering the links of a list in its order, and of leaving
\* them in the reverse order
Ins(ms) == [i \in 1..Len(ms) |-> Ev(ms[i], "in")]
Outs(ms) == [i \in 1..Len(ms) |-> Ev(ms[Len(ms) + 1 - i], "out")]
HandlerRun == <<Ev("h", "in"), Ev("h", "out")>>
IsIn(e) == e.at = "in"
\* the handler returned
Completed(tr) == \E i \in 1..Len(tr) : tr[i] = Ev("h", "out")

\* C19: the handler applyMiddleware returns for m1..mn has m1 outermost, then
\* m2, ..., mn around the handler; a request it serves to the end enters m1,
\* m2, ..., mn and the handler in this order and leaves them in the reverse
\* order, and a request that panics on the way has entered the links in this
\* order up to the panic
C19_FirstLinkOutermost ==
    /\ [](applied.h # <<>> => applied.h = applied.mws \o <<"h">>)
    /\ [][served' # served =>
            LET tr == served'.trace
                ins == SelectSeq(tr, IsIn)
            IN /\ Completed(tr) =>
                     tr = Ins(applied.mws) \o HandlerRun \o Outs(applied.mws)
               /\ ins = SubSeq(Ins(applied.mws) \o <<Ev("h", "in")>>, 1, Len(ins))]_vars

\* a request went through the chain x, recovery, y to the handler and back
C19_Witness ==
    /\ applied.mws = <<"x", "recovery", "y">>
    /\ served.trace = <<Ev("x", "in"), Ev("recovery", "in"), Ev("y", "in"),
                        Ev("h", "in"), Ev("h", "out"),
                        Ev("y", "out"), Ev("recovery", "out"), Ev("x", "out")>>

FourLinks == <<"metrics", "logger", "recovery", "reqlog">>

\* C20: every handler in the mux is the application's handler wrapped by
\* metrics, logger, recovery and request logging, outermost first, with the
\* links added by Use (and the health-checker link) only after these four;
\* a request enters the four in this order first, and a panic of the handler
\* or of a link added by Use is recovered by the recovery link and does not
\* leave the chain
C20_DefaultChainOrder ==
    /\ \A pattern \in DOMAIN mux :
          LET h == mux[pattern] IN
          /\ Len(h) >= 5
          /\ SubSeq(h, 1, 4) = FourLinks
          /\ h[Len(h)] = "h"
          /\ \A i \in 1..Len(h) : h[i] \in UserLinks \cup {"health"} => i > 4
          /\ \A i \in 5..Len(h) : h[i] \notin {"metrics", "logger", "recovery", "reqlog"}
    /\ Len(middlewares) >= 4
    /\ SubSeq(middlewares, 1, 4) = FourLinks
    /\ \A i \in 1..Len(middlewares) : middlewares[i] \in UserLinks => i > 4
    /\ served.trace # <<>> =>
          /\ Len(served.trace) >= 5
          /\ SubSeq(served.trace, 1, 4) = Ins(FourLinks)
          /\ served.trace[Len(served.trace)] = Ev("metrics", "out")
          /\ ~served.panicking
          /\ \A i \in 1..Len(served.trace) :
                served.trace[i].link \in UserLinks \cup {"h"} =>
                   /\ \E j \in 1..(i - 1) : served.trace[j] = Ev("recovery", "in")
                   /\ \E j \in (i + 1)..Len(served.trace) : served.trace[j] = Ev("recovery", "out")

\* /p was registered before Use(x) and /q after it; a request for /q panicked
\* in x, inside the four links, and the recovery link recovered it
C20_Witness ==
    /\ DOMAIN mux = {"/p", "/q"}
    /\ mux["/p"] = <<"metrics", "logger", "recovery", "reqlog", "health", "h">>
    /\ mux["/q"] = <<"metrics", "logger", "recovery", "reqlog", "health", "x", "h">>
    /\ served.trace = <<Ev("metrics", "in"), Ev("logger", "in"), Ev("recovery", "in"),
                        Ev("reqlog", "in"), Ev("health", "in"), Ev("x", "in"),
                        Ev("recovery", "recover"), Ev("recovery", "out"),
                        Ev("logger", "out"), Ev("metrics", "out")>>

\* the requests inside the metrics link
InMetricsLink ==
    {r \in Requests : rq[r].pc \in {"next", "record", "observe", "exit"}}
\* the request's handler or a link added with Use panicked
Panicked(r) == rq[r].p # "none"

\* C21: a request whose handler, or a link added with Use, panicked has been
\* answered with status 500 once the links inside the metrics link are done,
\* and the panic has been recovered there: it has not reached the metrics
\* link
C21_PanicBecomes500 ==
    \A r \in Requests :
       (Panicked(r) /\ rq[r].pc \in {"record", "observe", "exit", "done"}) =>
          /\ rq[r].recovered
          /\ rq[r].sent = 500

\* C22: the in-flight gauge is the number of requests inside the metrics
\* link, never negative, and 0 when every request is finished, whether the
\* requests returned or panicked
C22_InFlightCountsRequests ==
    /\ builtin.inflight = Cardinality(InMetricsLink)
    /\ builtin.inflight >= 0
    /\ (\A r \in Requests : rq[r].pc \in {"none", "done"}) => builtin.inflight = 0

\* every request panicked, one of them in the handler and one out of the
\* metrics link, and all are finished
C22_Witness ==
    /\ \A r \in Requests : rq[r].pc = "done" /\ (Panicked(r) \/ rq[r].escaped)
    /\ \E r \in Requests : rq[r].p = "h" /\ rq[r].recovered
    /\ \E r \in Requests : rq[r].escaped
    /\ builtin.inflight = 0

\* C23: a request that is finished has been counted once and its duration
\* observed once, under the status 500 when it panicked and otherwise under
\* the status the handler wrote, 200 when it wrote none; the children of the
\* two collectors hold exactly these
C23_RecordedOncePerRequest ==
    /\ \A r \in Requests : rq[r].pc = "done" =>
          /\ rq[r].counted = 1
          /\ rq[r].observed = 1
          /\ rq[r].statusCode =
                IF Panicked(r) THEN 500
                ELSE IF rq[r].sets # 0 THEN rq[r].sets ELSE 200
    /\ \A c \in StatusLabels :
          /\ httpTotal[c] = Cardinality({r \in Requests :
                               rq[r].counted = 1 /\ rq[r].statusCode = c})
          /\ httpDuration[c] = Cardinality({r \in Requests :
                                  rq[r].observed = 1 /\ rq[r].statusCode = c})

\* the last call evaluated the probes through the health checker
Evaluated == hres.status # "none"
Critical(n) == ~checks[n].skipOnErr
CriticalFailed(outs) == \E n \in DOMAIN outs : Critical(n) /\ outs[n] # "ok"
AdvisoryFailed(outs) == \E n \in DOMAIN outs : ~Critical(n) /\ outs[n] # "ok"

\* C24: after an evaluation in which every critical probe passed and an
\* advisory probe failed, IsHealthy and IsReady returned true and the
\* readiness endpoint answered 200 Ready
C24_AdvisoryFailureIsHealthy ==
    (Evaluated /\ ~CriticalFailed(hres.outs) /\ AdvisoryFailed(hres.outs)) =>
       /\ hres.op \in {"IsHealthy", "IsReady"} => hres.bool
       /\ hres.op = ReadinessPath => hres.code = 200 /\ hres.body = "Ready"

\* C25: after an evaluation in which a critical probe failed, IsHealthy and
\* IsReady returned false and the readiness endpoint answered 503 Not Ready,
\* whatever the other probes did
C25_CriticalFailureIsUnhealthy ==
    (Evaluated /\ CriticalFailed(hres.outs)) =>
       /\ hres.status = "Unavailable"
       /\ hres.op \in {"IsHealthy", "IsReady"} => ~hres.bool
       /\ hres.op = ReadinessPath => hres.code = 503 /\ hres.body = "Not Ready"

\* the readiness endpoint answered 503 with a critical probe failing, an
\* advisory probe passing
C25_Witness ==
    /\ hres.op = ReadinessPath
    /\ hres.code = 503
    /\ DOMAIN hres.outs = {"a", "b"}
    /\ Critical("a") /\ hres.outs["a"] = "fail"
    /\ ~Critical("b") /\ hres.outs["b"] = "ok"

\* C26: IsAlive returned true and the liveness endpoint answered 200 Alive,
\* whatever probes are registered and whatever they do; no answer is Not Alive
C26_AlwaysAlive ==
    /\ hres.op = "IsAlive" => hres.bool
    /\ hres.op = LivenessPath => hres.code = 200 /\ hres.body = "Alive"
    /\ hres.body # "Not Alive"

\* the liveness endpoint of a health checker answered while both probes,
\* critical ones, fail
C26_Witness ==
    /\ hres.op = LivenessPath
    /\ hres.hc
    /\ DOMAIN hres.outs = {"a", "b"}
    /\ \A n \in {"a", "b"} : Critical(n) /\ hres.outs[n] \in {"fail", "slow"}
    /\ hres.code = 200

\* C27: an evaluation in which a critical probe did not answer within its
\* timeout is unhealthy, and an evaluation in which every probe answered in
\* time without error is healthy, whatever the evaluations before it were
C27_TimeoutFailsThisEvaluationOnly ==
    Evaluated =>
       /\ (\E n \in DOMAIN hres.outs : Critical(n) /\ hres.outs[n] = "slow") =>
             /\ hres.status # "OK"
             /\ hres.op \in {"IsHealthy", "IsReady"} => ~hres.bool
       /\ (\A n \in DOMAIN hres.outs : hres.outs[n] = "ok") =>
             /\ hres.status = "OK"
             /\ hres.op \in {"IsHealthy", "IsReady"} => hres.bool

\* a critical probe timed out in the evaluation before, which was unhealthy,
\* and answered in time in the last one, which is healthy
C27_Witness ==
    /\ hres.op = "IsHealthy"
    /\ hres.bool
    /\ hprev.evaluated
    /\ ~hprev.healthy
    /\ DOMAIN hprev.outs = DOMAIN hres.outs
    /\ \E n \in DOMAIN hres.outs :
          Critical(n) /\ hprev.outs[n] = "slow" /\ hres.outs[n] = "ok"

\* C28: an evaluation made with a deadline has returned by that deadline
C28_EvaluationWithinDeadline ==
    (Evaluated /\ hres.deadline > 0) => hres.took <= hres.deadline

\* C29: a registration under a name that is registered already returned an
\* error to its caller
C29_DuplicateProbeRejected ==
    (hres.op \in {"Register", "RegisterHealthCheck"} /\ hres.dup) =>
       hres.returned = "error"

\* C30: a request for the health, readiness or liveness path on the
\* operational listener is answered by a handler: with 200 when there is a
\* health checker without probes, and with 200 and OK, Ready, Alive when there
\* is no health checker
C30_OperationalPathsServed ==
    hres.op \in OperationalPaths =>
       /\ hres.code \in {200, 503}
       /\ (hres.hc /\ checks = <<>>) => hres.code = 200
       /\ ~hres.hc =>
             /\ hres.code = 200
             /\ hres.body = (IF hres.op = "/health" THEN "OK"
                             ELSE IF hres.op = "/ready" THEN "Ready" ELSE "Alive")

\* the readiness path answered by the fallback of a service without health
\* checker
C30_Witness ==
    /\ hres.op = ReadinessPath
    /\ ~hres.hc
    /\ ~healthChecker
    /\ hres.code = 200
    /\ hres.body = "Ready"

\* C31: an accessor called on a request whose context lacks the value never
\* returns nil: GetLogger returns the default logger (and a logger in every
\* case), and each metric helper returns the 'metrics not available' error
\* and changes nothing of the collector.
C31_AccessorsFallBack ==
    [][acc'.n # acc.n =>
          /\ acc'.op = "GetLogger" =>
                /\ acc'.logger \in {"request", "default"}
                /\ acc'.ctx.logger # "set" => acc'.logger = "default"
          /\ (acc'.op \in Ops /\ acc'.ctx.metrics # "set") =>
                /\ acc'.err = "unavailable"
                /\ UNCHANGED metricsVars]_vars

\* a helper was called for a registered counter on a request without the
\* collector in its context, after GetLogger had returned the default logger
\* for it
C31_Witness ==
    /\ acc.n = 2
    /\ acc.ctx.logger = "absent"
    /\ acc.op = "IncCounter"
    /\ acc.ctx.metrics = "absent"
    /\ acc.err = "unavailable"
    /\ ensureMetricNamePrefix(acc.name) \in DOMAIN vecs["counter"]
    /\ series[ensureMetricNamePrefix(acc.name)] = <<>>

\* the part of a handler a request that panics at p enters
RECURSIVE UpTo(_, _)
UpTo(h, p) ==
    IF h = <<>> THEN <<>>
    ELSE IF Head(h) = p THEN <<p>>
    ELSE <<Head(h)>> \o UpTo(Tail(h), p)

\* C32: the chain of a route is fixed when the route is registered: a Use
\* call changes no registered handler and no request in flight, a registered
\* handler never changes, a route registered later is composed of the list
\* as it is then, and a request passes the links of its route as registered.
C32_ChainFixedAtRegistration ==
    [][/\ middlewares' # middlewares => (mux' = mux /\ rq' = rq)
       /\ \A pattern \in DOMAIN mux :
             pattern \in DOMAIN mux' /\ mux'[pattern] = mux[pattern]
       /\ \A pattern \in DOMAIN mux' \ DOMAIN mux :
             mux'[pattern] = middlewares \o UserHandler
       /\ \A r \in Requests :
             rq'[r].pc \in {"record", "observe", "exit", "done"} =>
                <<"metrics">> \o rq'[r].links =
                    UpTo(mux'[rq'[r].pattern], rq'[r].p)]_vars

\* Use("x") came between the registrations of /p and /q; a request for /q
\* has passed x, and a request for /p is inside its chain, which has no x
C32_Witness ==
    /\ DOMAIN mux = {"/p", "/q"}
    /\ mux["/p"] = NewMiddlewares(healthChecker) \o UserHandler
    /\ mux["/q"] = NewMiddlewares(healthChecker) \o <<"x">> \o UserHandler
    /\ middlewares = NewMiddlewares(healthChecker) \o <<"x">>
    /\ rq[1].pattern = "/p" /\ rq[1].pc = "record" /\ (\A i \in 1..Len(rq[1].links) : rq[1].links[i] # "x")
    /\ rq[2].pattern = "/q" /\ rq[2].pc = "done" /\ (\E i \in 1..Len(rq[2].links) : rq[2].links[i] = "x")

\* the calls of hook h made so far by the shutdown runs that are under way
HookCalls(h) ==
    {<<p, i>> \in Procs \X (1..MaxHooks) :
        i <= Len(run[p].called) /\ run[p].called[i] = h}

\* C33: each registered shutdown hook is executed at most once over the
\* lifetime of the service, whatever Start, the termination signal and the
\* callers of Stop do: the shutdown runs together never call a hook twice.
C33_HookAtMostOnce ==
    \A h \in 1..MaxHooks : Cardinality(HookCalls(h)) <= 1

\* the listeners a run is done with or busy with: Shutdown was called, or the
\* handle was nil
Begun(p) == run[p].att \cup run[p].seenNil

\* C34: in every shutdown run no listener's block is entered before the last
\* hook returned, the operational listener's block is entered only after the
\* primary listener's Shutdown returned; and while the hooks of the only
\* shutdown run run and the primary listener drains, the operational
\* listener has not been shut down.
C34_PrimaryThenOperational ==
    /\ \A p \in Procs :
          /\ run[p].pc \in {"hooks", "inhook"} => Begun(p) = {}
          /\ run[p].pc = "server" =>
                Begun(p) = {} /\ Len(run[p].called) = run[p].n
          /\ run[p].pc = "serverWait" => Begun(p) = {"primary"}
          /\ run[p].pc = "metrics" => Begun(p) = {"primary"}
          /\ "metrics" \in Begun(p) =>
                /\ "primary" \in Begun(p)
                /\ run[p].pc \in {"metricsWait", "ret"}
                /\ Len(run[p].called) = run[p].n
    /\ (stops = 0 /\ run["start"].pc \in {"hooks", "inhook", "server", "serverWait"})
          => \A g \in Gens : ~inShutdown["metrics"][g]

\* the signal's run has called both hooks, the primary listener's Shutdown
\* has waited for its connections and returned, and the run is in the
\* operational listener's Shutdown, the only one of the service
C34_Witness ==
    /\ stops = 0
    /\ run["start"].pc = "metricsWait"
    /\ run["start"].called = <<1, 2>>
    /\ run["start"].att = {"primary", "metrics"}
    /\ run["start"].failed = {}
    /\ \E k \in Gens : gpc["primary"][k] = "closed"

\* C35: the two listener shutdowns share the one deadline that runs from the
\* entry of the shutdown run: once it has passed, in the hooks or in the
\* primary listener's drain, it has passed for the rest of the run, and a
\* listener's Shutdown that waits when it has passed returns.
C35_OneSharedDeadline ==
    /\ [][\A p \in Procs :
            (run[p].expired /\ run'[p].pc # "idle") => run'[p].expired]_vars
    /\ \A kind \in Kinds :
          (run["start"].pc = WaitPc(kind) /\ run["start"].expired)
             ~> (run["start"].pc # WaitPc(kind))

\* the deadline passed and ended both listeners' waits: the run reached its
\* return with both Shutdown calls failed, after both hooks
C35_Witness ==
    /\ run["start"].pc = "ret"
    /\ run["start"].expired
    /\ run["start"].called = <<1, 2>>
    /\ run["start"].failed = {"primary", "metrics"}
    /\ run["start"].result = Err("primary", "deadline")

\* the listener goroutine of Start call k has not finished
Alive(kind, k) == gpc[kind][k] \in {"spawned", "stored", "serving"}

\* C36: a listener task never blocks on reporting its error: as long as a
\* listener task of a Start call has not finished, the error channel of that
\* call has room for one more error, whether or not Start still reads it, and
\* the channel never holds more than both listeners' errors.
C36_ErrorReportNeverBlocks ==
    \A k \in Gens :
       /\ Len(serverErrors[k]) <= Cardinality(Kinds)
       /\ \A kind \in Kinds :
             Alive(kind, k) => Len(serverErrors[k]) < ServerErrorsCap

\* both listeners failed; Start returned the first error, the second task has
\* put its error in the channel, which nobody reads, and has finished
C36_Witness ==
    /\ startPc = "returned"
    /\ via = "error"
    /\ startResult = Err("metrics", "bind")
    /\ gpc["metrics"][1] = "bindFailed"
    /\ gpc["primary"][1] = "serveFailed"
    /\ serverErrors[1] = <<Err("primary", "serve")>>

\* the collectors of the registry that were registered through Register*
UserCollectors == {n \in DOMAIN registry : ~registry[n].builtin}

\* C37: of the tasks that register the same name concurrently, as the same
\* kind or as different kinds, exactly one succeeds and every other one
\* returns an error, in every interleaving: a registration succeeds exactly
\* when the name is not registered yet, the collector and the map entry are
\* then those of that call, and a registration that finds the name changes
\* nothing; when all tasks are done one collector holds the name.
C37_OneRegistrationWins ==
    [][/\ regs' # regs =>
             LET n == mres'.name IN
             IF n \in DOMAIN registry
             THEN mres'.err # "nil" /\ registry' = registry /\ vecs' = vecs
             ELSE /\ mres'.err = "nil"
                  /\ DOMAIN registry' = DOMAIN registry \cup {n}
                  /\ registry'[n].kind = mres'.kind
                  /\ registry'[n].given = mres'.given
                  /\ \A k \in MKinds : n \in DOMAIN vecs'[k] <=> k = mres'.kind
       /\ Cardinality(UserCollectors') <= 1
       /\ (\A r \in Registrars : tpc'[r] = "done") =>
             /\ regs' = Cardinality(Registrars)
             /\ Cardinality(UserCollectors') = 1]_vars

\* two tasks registered "a" as different kinds: the gauge came first and is
\* in the registry and in the gauge map, the counter was rejected by the
\* registry
C37_Witness ==
    /\ \A r \in Registrars : tpc[r] = "done"
    /\ regs = 2
    /\ mres.kind = "counter"
    /\ mres.err = "register"
    /\ registry[CounterName].kind = "gauge"
    /\ CounterName \in DOMAIN vecs["gauge"]
    /\ CounterName \notin DOMAIN vecs["counter"]

\* the tasks of the race that have left their call, by return or by panic
Left == {t \in Observers \cup Registrars : tpc[t] \in {"done", "panicked"}}
\* the tasks that are between RLock and RUnlock
RLockedBy == {t \in Observers : tpc[t] \in {"held", "child", "unlock", "unwinding"}}
\* the tasks that are between the announcement of Lock and Unlock
LockedBy == {r \in Registrars : tpc[r] \in {"announced", "wheld", "wunlock"}}

\* C39: every registration and observation releases the collector's lock on
\* every exit path (success, already exists, registry rejection, not found,
\* panic in the metric library): the lock is held only by tasks that are
\* inside a call, it is free when all tasks have left, and no task waits
\* for it forever: every task started leaves its call.
C39_LockReleasedOnEveryPath ==
    /\ [](/\ mu.readers = Cardinality(RLockedBy)
          /\ (mu.wowner = "none" <=> LockedBy = {})
          /\ (mu.wowner # "none" => LockedBy = {mu.wowner})
          /\ (mu.wheld <=> \E r \in Registrars : tpc[r] \in {"wheld", "wunlock"}))
    /\ \A t \in Observers \cup Registrars : (tpc[t] = "start") ~> (t \in Left)

\* every exit path was taken and the lock is free: one registration
\* succeeded and the other found the name in its map, one increment panicked
\* in WithLabelValues and the other did not find the counter
C39_Witness ==
    /\ Left = Observers \cup Registrars
    /\ mu = [readers |-> 0, wowner |-> "none", wheld |-> FALSE]
    /\ mres.err = "exists"
    /\ \E t \in Observers : tpc[t] = "panicked"
    /\ \E t \in Observers : tpc[t] = "done" /\ seen[t] = 0
    /\ series[CounterName] = <<>>

\* the kinds whose map holds name n
KindsHolding(n) == {k \in MKinds : n \in DOMAIN vecs[k]}

\* C38: a registration that fails, for a name already in the kind's map or
\* for a collector the registry rejects, changes neither the four maps nor
\* the registry; and after any sequence of registrations every name in a
\* kind's map is registered in the registry as that kind, and every
\* collector of the registry registered through Register* is in exactly one
\* map.
C38_FailedRegistrationLeavesNoTrace ==
    [][/\ (regs' # regs /\ mres'.err # "nil") =>
             (vecs' = vecs /\ registry' = registry /\ series' = series)
       /\ \A k \in MKinds : \A n \in DOMAIN vecs'[k] :
             /\ n \in DOMAIN registry'
             /\ registry'[n].kind = k
             /\ ~registry'[n].builtin
       /\ \A n \in DOMAIN registry' :
             ~registry'[n].builtin =>
                Cardinality({k \in MKinds : n \in DOMAIN vecs'[k]}) = 1]_vars

\* after a successful registration of "a" as a gauge, a registration of the
\* name of a built-in collector was rejected by the registry: the maps hold
\* the gauge only
C38_Witness ==
    /\ regs >= 2
    /\ mres.err = "register"
    /\ mres.name = BuiltinName("T")
    /\ KindsHolding(BuiltinName("T")) = {}
    /\ KindsHolding(CounterName) = {"gauge"}
    /\ registry[CounterName].kind = "gauge"

\* C40: the status code the metrics link records for a request is the status
\* code of the response sent to the client: for every request that has been
\* counted and answered, the status_code label it was counted under is the
\* status the client got.
C40_RecordedStatusIsSentStatus ==
    \A r \in Requests :
       (rq[r].pc = "done" /\ rq[r].counted = 1) => rq[r].statusCode = rq[r].sent

====
